---- MODULE Spec2Model ----
(***************************************************************************)
(* Payment lifecycle engine of ms-go-payments: idempotent creation, the    *)
(* status state machine driven by provider webhooks, reconciliation and    *)
(* the pending-timeout sweeper, and the retrying outbound dispatcher.      *)
(*                                                                         *)
(* Every service operation is a read-modify-write over the payments table  *)
(* without a transaction, so each is modelled as the sequence of its       *)
(* storage interactions: request handlers run on the threads of `req`,     *)
(* the three batch workers on `rec`, `exp` and `dsp`.                      *)
(***************************************************************************)
EXTENDS Integers, Sequences, FiniteSets, Bags, TLC

\* ------------------------------------------------------------------ bounds
MaxThreads == 2             \* concurrent request handlers
MaxTime == 2                \* clock ticks
MaxOps == 4                 \* invocations of service operations

\* ----------------------------------------------------------- configuration
CallbackMaxAttempts == 3    \* paymentsCfg.CallbackMaxAttempts
CallbackRetryInterval == 1  \* paymentsCfg.CallbackRetryInterval, in ticks
PendingTimeout == 1         \* paymentsCfg.PendingTimeout, in ticks
ReconcileStaleAfter == 1    \* paymentsCfg.ReconcileStaleAfter, in ticks
JobBatchSize == 1           \* paymentsCfg.JobBatchSize

\* ---------------------------------------------------------------- enums
PAYMENT_STATUS_CREATED == 1
PAYMENT_STATUS_PENDING == 2
PAYMENT_STATUS_PROCESSING == 3
PAYMENT_STATUS_PAID == 10
PAYMENT_STATUS_FAILED == 20
PAYMENT_STATUS_CANCELED == 30
PAYMENT_STATUS_EXPIRED == 40

PROVIDER_TYPE_STRIPE == 1

CallbackDeliveryNone == 0
CallbackDeliveryPending == 1
CallbackDeliverySuccess == 10
CallbackDeliveryFailed == 20

paymentCallbackStatusProcessed == 10
paymentCallbackStatusRejected == 20

defaultBatchSize == 100
defaultRetryInterval == 5   \* 5 * time.Minute, a tick being a minute

\* A Go pointer: Nil, or Ptr(v) pointing at v.
Nil == << >>
Ptr(v) == << v >>
Deref(p) == p[1]

Min(a, b) == IF a <= b THEN a ELSE b

\* strings.TrimSpace / strings.ToLower over the strings the requests use.
TrimSpace(s) ==
    CASE s = " r1 " -> "r1"
      [] s = " " -> ""
      [] s = " stripe " -> "stripe"
      [] s = " usd" -> "usd"
      [] OTHER -> s

ToLower(s) ==
    CASE s = "STRIPE" -> "stripe"
      [] s = "PayPal" -> "paypal"
      [] OTHER -> s

\* strings.ToUpper over the currency codes the requests use.
ToUpper(s) ==
    CASE s = "usd" -> "USD"
      [] OTHER -> s

\* --------------------------------------------------------------- errors
NoErr == "nil"
ErrInvalidRequest == "invalid request"
ErrPaymentNotFound == "payment not found"
ErrPaymentAlreadyExists == "payment already exists"
ErrInvalidStatus == "invalid status"
ErrProviderUnsupported == "provider is not supported"
ErrCallbackRejected == "callback rejected"
ErrProvider == "provider error"
ErrStorage == "storage error"
ErrDispatch == "dispatch error"
ErrInvalidArgument == "invalid argument"

VARIABLES
    payments,    \* table payments: row i has id i (AUTO_INCREMENT)
    events,      \* table payment_events, a bag of rows
    callbacks,   \* table payment_callbacks, a bag of rows
    sessions,    \* provider side: checkouts created by Provider.CreatePayment
    posts,       \* caller side: per payment, the POSTs received
    req,         \* request handler threads
    rec,         \* the reconcile worker
    exp,         \* the expire worker
    dsp,         \* the dispatch worker
    resp,        \* what the last finished invocation returned
    now,         \* the clock
    quota,       \* invocations (and storage faults) still to be issued
    cfg,         \* config.PaymentsConfig and the storage connection's flags
    inputs,      \* the requests and provider answers the environment draws from
    nextHash     \* uuid.NewString(): the next fresh value

vars == << payments, events, callbacks, sessions, posts, req, rec, exp, dsp,
           resp, now, quota, cfg, inputs, nextHash >>

Threads == 1 .. MaxThreads
PaymentIDs == 1 .. Len(payments)

\* ------------------------------------------------------- status predicates
terminalStatus(status) ==
    status \in { PAYMENT_STATUS_PAID, PAYMENT_STATUS_FAILED,
                 PAYMENT_STATUS_CANCELED, PAYMENT_STATUS_EXPIRED }

markForCallbackDeliveryUnscheduled(payment, t) ==
    [ payment EXCEPT !.CallbackDeliveryStatus = CallbackDeliveryPending,
                     !.CallbackDeliveryAttempts = 0,
                     !.CallbackDeliveryLastErr = Nil ]

markForCallbackDelivery(payment, t) ==
    [ payment EXCEPT !.CallbackDeliveryStatus = CallbackDeliveryPending,
                     !.CallbackDeliveryAttempts = 0,
                     !.CallbackDeliveryNextAt = Ptr(t),
                     !.CallbackDeliveryLastErr = Nil ]

batchSize == IF cfg.JobBatchSize > 0 THEN cfg.JobBatchSize ELSE defaultBatchSize

keepLastErr(current, candidate) ==
    IF candidate # NoErr THEN candidate ELSE current

keepFirstErr(current, candidate) ==
    IF current # NoErr THEN current ELSE candidate


UpdatedRowTouchesCreatedAt(stored, payment) ==
    [ payment EXCEPT !.ID = stored.ID,
                     !.RequestID = stored.RequestID,
                     !.CallerService = stored.CallerService,
                     !.ProviderCallbackHash = stored.ProviderCallbackHash,
                     !.CreatedAt = payment.UpdatedAt ]

\* ------------------------------------------------------------- repository
\* The columns UPDATE ... WHERE id = ? does not write keep their stored values.
UpdatedRow(stored, payment) ==
    [ payment EXCEPT !.ID = stored.ID,
                     !.RequestID = stored.RequestID,
                     !.CallerService = stored.CallerService,
                     !.ProviderCallbackHash = stored.ProviderCallbackHash,
                     !.CreatedAt = stored.CreatedAt ]

\* PaymentRepository.Update: the error it returns, and the table after it.
\* RowsAffected is 0 when no row has the id and, unless the connection counts
\* found rows, also when the row already holds every value written.
UpdateErr(payment) ==
    IF payment.ID \notin PaymentIDs THEN ErrPaymentNotFound
    ELSE IF /\ ~cfg.ClientFoundRows
            /\ UpdatedRow(payments[payment.ID], payment) = payments[payment.ID]
    THEN ErrPaymentNotFound
    ELSE NoErr

Update(payment) ==
    IF payment.ID \in PaymentIDs
    THEN [ payments EXCEPT ![payment.ID] = UpdatedRow(@, payment) ]
    ELSE payments

\* UNIQUE idx_payments_caller_request_id, idx_payments_provider_callback_hash
isDuplicateEntryNever(payment) == FALSE

isDuplicateEntry(payment) ==
    \E i \in PaymentIDs :
        \/ /\ payments[i].CallerService = payment.CallerService
           /\ payments[i].RequestID = payment.RequestID
        \/ /\ payments[i].Provider = payment.Provider
           /\ payments[i].ProviderCallbackHash = payment.ProviderCallbackHash

\* PaymentRepository.Create
CreateErrSwallowed(payment) == NoErr

CreateErr(payment) ==
    IF isDuplicateEntry(payment) THEN ErrPaymentAlreadyExists ELSE NoErr

Create(payment) ==
    IF isDuplicateEntry(payment)
    THEN payments
    ELSE Append(payments, [ payment EXCEPT !.ID = Len(payments) + 1 ])

FindByID(id) ==
    IF id \in PaymentIDs THEN Ptr(payments[id]) ELSE Nil

\* SELECT ... LIMIT 1: any one matching row.
FindByCallerRequestIDMiss(callerService, requestID) == { Nil }

FindByCallerRequestID(callerService, requestID) ==
    LET hit == { i \in PaymentIDs : /\ payments[i].CallerService = callerService
                                    /\ payments[i].RequestID = requestID }
    IN  IF hit = {} THEN { Nil } ELSE { Ptr(payments[i]) : i \in hit }

FindByCallbackHash(provider, callbackHash) ==
    LET hit == { i \in PaymentIDs : /\ payments[i].Provider = provider
                                    /\ payments[i].ProviderCallbackHash = callbackHash }
    IN  IF hit = {} THEN { Nil } ELSE { Ptr(payments[i]) : i \in hit }

\* The results ORDER BY <key> ASC LIMIT <limit> may return over the rows `ids`:
\* rows with equal keys come in any order.
RECURSIVE Ordered(_, _)
Ordered(ids, key) ==
    IF ids = {} THEN { << >> }
    ELSE UNION { { << i >> \o rest : rest \in Ordered(ids \ { i }, key) } :
                 i \in { j \in ids : \A k \in ids : key[j] <= key[k] } }

Limit(items, limit) == SubSeq(items, 1, Min(limit, Len(items)))

Rows(ids) == [ n \in DOMAIN ids |-> payments[ids[n]] ]

ListDueCallbackDispatchUnordered(t, limit) ==
    LET due == { i \in PaymentIDs :
                   /\ payments[i].CallbackDeliveryStatus = CallbackDeliveryPending
                   /\ payments[i].CallbackDeliveryNextAt # Nil
                   /\ Deref(payments[i].CallbackDeliveryNextAt) <= t }
        key == [ i \in due |-> 0 ]
    IN  { Rows(Limit(o, limit)) : o \in Ordered(due, key) }

ListDueCallbackDispatchAnyTime(t, limit) ==
    LET due == { i \in PaymentIDs :
                   /\ payments[i].CallbackDeliveryStatus = CallbackDeliveryPending
                   /\ payments[i].CallbackDeliveryNextAt # Nil }
        key == [ i \in due |-> Deref(payments[i].CallbackDeliveryNextAt) ]
    IN  { Rows(Limit(o, limit)) : o \in Ordered(due, key) }

ListDueCallbackDispatch(t, limit) ==
    LET due == { i \in PaymentIDs :
                   /\ payments[i].CallbackDeliveryStatus = CallbackDeliveryPending
                   /\ payments[i].CallbackDeliveryNextAt # Nil
                   /\ Deref(payments[i].CallbackDeliveryNextAt) <= t }
        key == [ i \in due |-> Deref(payments[i].CallbackDeliveryNextAt) ]
    IN  { Rows(Limit(o, limit)) : o \in Ordered(due, key) }

ListExpiredPendingAnyAge(cutoff, limit) ==
    LET old == { i \in PaymentIDs :
                   payments[i].Status \in { PAYMENT_STATUS_PENDING,
                                            PAYMENT_STATUS_PROCESSING } }
        key == [ i \in old |-> payments[i].CreatedAt ]
    IN  { Rows(Limit(o, limit)) : o \in Ordered(old, key) }

ListExpiredPending(cutoff, limit) ==
    LET old == { i \in PaymentIDs :
                   /\ payments[i].Status \in { PAYMENT_STATUS_PENDING,
                                               PAYMENT_STATUS_PROCESSING }
                   /\ payments[i].CreatedAt <= cutoff }
        key == [ i \in old |-> payments[i].CreatedAt ]
    IN  { Rows(Limit(o, limit)) : o \in Ordered(old, key) }

ListForReconcileAnyAge(before, limit) ==
    LET stale == { i \in PaymentIDs :
                     /\ payments[i].Status \in { PAYMENT_STATUS_PENDING,
                                                 PAYMENT_STATUS_PROCESSING }
                     /\ payments[i].ProviderPaymentID # Nil }
        key == [ i \in stale |-> payments[i].UpdatedAt ]
    IN  { Rows(Limit(o, limit)) : o \in Ordered(stale, key) }

ListForReconcile(before, limit) ==
    LET stale == { i \in PaymentIDs :
                     /\ payments[i].Status \in { PAYMENT_STATUS_PENDING,
                                                 PAYMENT_STATUS_PROCESSING }
                     /\ payments[i].ProviderPaymentID # Nil
                     /\ payments[i].UpdatedAt <= before }
        key == [ i \in stale |-> payments[i].UpdatedAt ]
    IN  { Rows(Limit(o, limit)) : o \in Ordered(stale, key) }

RegistryGetAny(code) == NoErr

\* ------------------------------------------------------------- provider
\* Registry.Get: only the Stripe provider is registered.
RegistryGet(code) ==
    IF code = PROVIDER_TYPE_STRIPE THEN NoErr ELSE ErrProviderUnsupported

parseProviderCode(providerRaw) ==
    IF ToLower(TrimSpace(providerRaw)) \in { "stripe", "1" }
    THEN PROVIDER_TYPE_STRIPE
    ELSE 0

\* StripeProvider.CreatePayment: an error, or a checkout session / payment link
\* whose initial status is PENDING.
StripeCreateOutputs(ids) ==
    { [ err |-> ErrProvider, InitialStatus |-> 0, ProviderPaymentID |-> Nil,
        ProviderSubscriptionID |-> Nil ] }
    \cup
    { [ err |-> NoErr, InitialStatus |-> PAYMENT_STATUS_PENDING,
        ProviderPaymentID |-> id, ProviderSubscriptionID |-> Nil ] :
      id \in ids }

StripeEventStatusRefundProcessing(type) ==
    CASE type \in { "checkout.session.completed",
                    "checkout.session.async_payment_succeeded" } -> PAYMENT_STATUS_PAID
      [] type = "checkout.session.async_payment_failed" -> PAYMENT_STATUS_FAILED
      [] type = "checkout.session.expired" -> PAYMENT_STATUS_EXPIRED
      [] type = "invoice.paid" -> PAYMENT_STATUS_PAID
      [] type = "invoice.payment_failed" -> PAYMENT_STATUS_FAILED
      [] type = "customer.subscription.deleted" -> PAYMENT_STATUS_CANCELED
      [] type = "charge.refunded" -> PAYMENT_STATUS_PROCESSING
      [] OTHER -> 0

\* StripeProvider.VerifyAndParseCallback: the status the event type maps to.
StripeEventStatus(type) ==
    CASE type \in { "checkout.session.completed",
                    "checkout.session.async_payment_succeeded" } -> PAYMENT_STATUS_PAID
      [] type = "checkout.session.async_payment_failed" -> PAYMENT_STATUS_FAILED
      [] type = "checkout.session.expired" -> PAYMENT_STATUS_EXPIRED
      [] type = "invoice.paid" -> PAYMENT_STATUS_PAID
      [] type = "invoice.payment_failed" -> PAYMENT_STATUS_FAILED
      [] type = "customer.subscription.deleted" -> PAYMENT_STATUS_CANCELED
      [] OTHER -> 0

\* assignCheckoutSessionFields / assignInvoiceFields / assignSubscriptionFields
StripeEventPaymentID(payload) ==
    IF /\ payload.type \in { "checkout.session.completed",
                             "checkout.session.async_payment_succeeded",
                             "checkout.session.async_payment_failed",
                             "checkout.session.expired",
                             "invoice.paid", "invoice.payment_failed" }
       /\ TrimSpace(payload.id) # ""
    THEN Ptr(TrimSpace(payload.id))
    ELSE Nil

StripeEventSubscriptionID(payload) ==
    IF /\ payload.type = "customer.subscription.deleted"
       /\ TrimSpace(payload.id) # ""
    THEN Ptr(TrimSpace(payload.id))
    ELSE Nil

\* Provider.CreatePayment of the registered provider: StripeProvider answers
\* with initial status PENDING; a provider configured with another output
\* (serviceProvider.createOutput) answers with that.
ProviderCreateOutputs(ids, statuses) ==
    { [ out EXCEPT !.InitialStatus = IF out.err = NoErr THEN status ELSE 0 ] :
      out \in StripeCreateOutputs(ids), status \in statuses }

VerifyAndParseCallbackUnsigned(payload, signature) ==
    IF ~payload.json
    THEN Nil
    ELSE Ptr([ EventType |-> payload.type,
               NewStatus |-> StripeEventStatus(payload.type),
               ProviderPaymentID |-> StripeEventPaymentID(payload),
               ProviderSubscriptionID |-> StripeEventSubscriptionID(payload) ])

\* The parsed event, or Nil when the signature or the JSON is bad.
VerifyAndParseCallback(payload, signature) ==
    IF signature # "valid" \/ ~payload.json
    THEN Nil
    ELSE Ptr([ EventType |-> payload.type,
               NewStatus |-> StripeEventStatus(payload.type),
               ProviderPaymentID |-> StripeEventPaymentID(payload),
               ProviderSubscriptionID |-> StripeEventSubscriptionID(payload) ])

StripeSessionStatusUnpaidProcessing(session) ==
    IF session.status = "expired" THEN PAYMENT_STATUS_EXPIRED
    ELSE CASE session.payment_status \in { "paid", "no_payment_required" }
                  -> PAYMENT_STATUS_PAID
           [] session.payment_status = "unpaid" -> PAYMENT_STATUS_PROCESSING
           [] OTHER -> 0

\* StripeProvider.GetPaymentStatus over the session the provider returns.
StripeSessionStatus(session) ==
    IF session.status = "expired" THEN PAYMENT_STATUS_EXPIRED
    ELSE CASE session.payment_status \in { "paid", "no_payment_required" }
                  -> PAYMENT_STATUS_PAID
           [] session.payment_status = "unpaid" -> PAYMENT_STATUS_PENDING
           [] OTHER -> 0

StripeSessions ==
    { [ status |-> s, payment_status |-> p ] :
      s \in { "open", "complete", "expired" },
      p \in { "paid", "unpaid", "no_payment_required", "processing" } }

\* One session for each status GetPaymentStatus can return.
StripeSessionKinds ==
    { [ status |-> "open", payment_status |-> p ] :
      p \in { "paid", "unpaid", "processing" } }
    \cup { [ status |-> "expired", payment_status |-> "unpaid" ] }


\* ------------------------------------------------------------ bookkeeping
IdleThread == [ op |-> "idle", payment |-> Nil, oldStatus |-> 0, now |-> 0,
                eventType |-> "" ]

\* `answer` is what the provider last answered the worker, if it asked.
IdleWorker == [ pc |-> "idle", items |-> << >>, now |-> 0, firstErr |-> NoErr,
                answer |-> Nil ]

\* Request handlers take the lowest free thread.
FreeThread(t) ==
    /\ req[t].op = "idle"
    /\ \A u \in Threads : u < t => req[u].op # "idle"

Response(op, err, payment, written) ==
    [ op |-> op, err |-> err, payment |-> payment, callbacks |-> written ]

NoResponse == Response("none", NoErr, Nil, 0)

PaymentEvent(paymentID, eventType, oldStatus, newStatus) ==
    [ PaymentID |-> paymentID, EventType |-> eventType,
      OldStatus |-> oldStatus, NewStatus |-> newStatus ]

PaymentCallback(paymentID, callbackHash, status, error) ==
    [ PaymentID |-> paymentID, CallbackHash |-> callbackHash,
      Status |-> status, Error |-> error ]

Insert(table, row) == table (+) SetToBag({ row })

\* How a step's storage calls end: "ok", or, while faults are left to inject,
\* one of the failures `failures` the step can meet.
Outcomes(failures) == { "ok" } \cup (IF quota.fault > 0 THEN failures ELSE {})

\* Invocations are counted against quota.ops while the quota is metered.
CanSpend == ~quota.metered \/ quota.ops > 0

Spend(kind) == IF quota.metered THEN [ quota EXCEPT !.ops = @ - 1 ] ELSE quota

SpendFault(q, outcome) ==
    IF outcome # "ok" THEN [ q EXCEPT !.fault = @ - 1 ] ELSE q

\* The caller's record of a payment's POSTs: how many since the delivery was
\* last armed, the status carried by the last one answered 2xx, and how the
\* last one was answered.
NoPosts == [ sinceArm |-> 0, acked |-> 0, last |-> "none" ]

Rearmed(id) == [ posts EXCEPT ![id].sinceArm = 0 ]

\* ------------------------------------------------------------ CreatePayment
CreateRequests ==
    LET base == [ RequestId |-> "r1", CallerService |-> "subs", Provider |-> 0,
                  AmountCents |-> 1000, Currency |-> " usd",
                  StatusCallbackUrl |-> "https://c/cb" ]
    IN  { base,
          [ base EXCEPT !.RequestId = " r1 " ],
          [ base EXCEPT !.RequestId = "r2" ],
          [ base EXCEPT !.RequestId = "" ],
          [ base EXCEPT !.CallerService = " " ],
          [ base EXCEPT !.Provider = PROVIDER_TYPE_STRIPE ],
          [ base EXCEPT !.Provider = PROVIDER_TYPE_STRIPE + 1 ],
          [ base EXCEPT !.StatusCallbackUrl = "" ],
          [ base EXCEPT !.StatusCallbackUrl = "://bad" ] }

NewPaymentUnarmed(in, providerCode, out, callbackHash, t) ==
    [ ID |-> 0,
      RequestID |-> TrimSpace(in.RequestId),
      CallerService |-> TrimSpace(in.CallerService),
      AmountCents |-> in.AmountCents,
      Currency |-> ToUpper(TrimSpace(in.Currency)),
      Status |-> out.InitialStatus,
      Provider |-> providerCode,
      ProviderPaymentID |-> out.ProviderPaymentID,
      ProviderSubscriptionID |-> out.ProviderSubscriptionID,
      ProviderCallbackHash |-> callbackHash,
      StatusCallbackURL |-> TrimSpace(in.StatusCallbackUrl),
      RefundedCents |-> 0,
      RefundableCents |-> in.AmountCents,
      CallbackDeliveryStatus |-> CallbackDeliveryNone,
      CallbackDeliveryAttempts |-> 0,
      CallbackDeliveryNextAt |-> Nil,
      CallbackDeliveryLastErr |-> Nil,
      CreatedAt |-> t,
      UpdatedAt |-> t ]

ValidateAnyAmount(in) ==
    IF \/ TrimSpace(in.RequestId) = ""
       \/ TrimSpace(in.CallerService) = ""
       \/ Len(TrimSpace(in.Currency)) # 3
       \/ in.Provider \notin { 0, PROVIDER_TYPE_STRIPE }
       \/ TrimSpace(in.StatusCallbackUrl) = ""
    THEN ErrInvalidArgument
    ELSE NoErr

\* CreatePaymentRequest.Validate, over the fields the requests carry.
Validate(in) ==
    IF \/ TrimSpace(in.RequestId) = ""
       \/ TrimSpace(in.CallerService) = ""
       \/ in.AmountCents <= 0
       \/ Len(TrimSpace(in.Currency)) # 3
       \/ in.Provider \notin { 0, PROVIDER_TYPE_STRIPE }
       \/ TrimSpace(in.StatusCallbackUrl) = ""
    THEN ErrInvalidArgument
    ELSE NoErr

\* The entity CreatePayment assembles from the request and the provider output.
NewPayment(in, providerCode, out, callbackHash, t) ==
    LET payment ==
          [ ID |-> 0,
            RequestID |-> TrimSpace(in.RequestId),
            CallerService |-> TrimSpace(in.CallerService),
            AmountCents |-> in.AmountCents,
            Currency |-> ToUpper(TrimSpace(in.Currency)),
            Status |-> out.InitialStatus,
            Provider |-> providerCode,
            ProviderPaymentID |-> out.ProviderPaymentID,
            ProviderSubscriptionID |-> out.ProviderSubscriptionID,
            ProviderCallbackHash |-> callbackHash,
            StatusCallbackURL |-> TrimSpace(in.StatusCallbackUrl),
            RefundedCents |-> 0,
            RefundableCents |-> in.AmountCents,
            CallbackDeliveryStatus |-> CallbackDeliveryNone,
            CallbackDeliveryAttempts |-> 0,
            CallbackDeliveryNextAt |-> Nil,
            CallbackDeliveryLastErr |-> Nil,
            CreatedAt |-> t,
            UpdatedAt |-> t ]
    IN  IF terminalStatus(payment.Status)
        THEN markForCallbackDelivery(payment, t)
        ELSE payment

\* uuid.NewString(): a value never drawn before or, where the environment
\* lets random values collide, any value.
NewString == IF inputs.collide THEN 1 .. nextHash ELSE { nextHash }

\* CreatePayment up to the provider call: validation, the idempotency lookup,
\* provider resolution, the fresh callback hash and Provider.CreatePayment.
CreatePaymentLookup(t, in) ==
    /\ FreeThread(t)
    /\ CanSpend
    /\ LET requestID == TrimSpace(in.RequestId)
           callerService == TrimSpace(in.CallerService)
           providerCode == IF in.Provider = 0 THEN PROVIDER_TYPE_STRIPE
                           ELSE in.Provider
       IN  \E existing \in FindByCallerRequestID(callerService, requestID),
              out \in ProviderCreateOutputs(inputs.sessions, inputs.initial),
              callbackHash \in NewString,
              lookup \in Outcomes({ "find" }) :
             LET early ==
                   IF requestID = "" \/ callerService = "" THEN ErrInvalidRequest
                   ELSE IF lookup = "find" THEN ErrStorage
                   ELSE IF existing # Nil THEN "existing"
                   ELSE IF RegistryGet(providerCode) # NoErr THEN ErrProviderUnsupported
                   ELSE IF out.err # NoErr THEN out.err
                   ELSE NoErr
                 called == early \in { NoErr, ErrProvider }
             IN  /\ (early = ErrInvalidRequest => lookup = "ok")
                 /\ quota' = SpendFault(Spend("create"), lookup)
                 /\ nextHash' = IF called THEN nextHash + 1 ELSE nextHash
                 /\ sessions' = IF early = NoErr
                                THEN sessions \cup { [ RequestID |-> requestID,
                                                       CallerService |-> callerService,
                                                       CallbackHash |-> callbackHash,
                                                       InitialStatus |-> out.InitialStatus ] }
                                ELSE sessions
                 /\ req' = IF early = NoErr
                           THEN [ req EXCEPT ![t] =
                                    [ IdleThread EXCEPT
                                        !.op = "create",
                                        !.now = now,
                                        !.payment = Ptr(NewPayment(in, providerCode, out,
                                                                   callbackHash, now)) ] ]
                           ELSE req
                 /\ resp' = CASE early = NoErr -> NoResponse
                              [] early = "existing" -> Response("create", NoErr, existing, 0)
                              [] OTHER -> Response("create", early, Nil, 0)
    /\ UNCHANGED << payments, events, callbacks, posts, rec, exp, dsp, now, cfg, inputs >>

\* CreatePayment from the insert on: paymentRepo.Create, then the best-effort
\* payment_created event.
CreatePaymentInsert(t) ==
    /\ req[t].op = "create"
    /\ \E insert \in Outcomes({ "create", "event" }) :
         LET payment == Deref(req[t].payment)
             err == IF insert = "create" THEN ErrStorage ELSE CreateErr(payment)
             stored == [ payment EXCEPT !.ID = Len(payments) + 1 ]
         IN  /\ quota' = SpendFault(quota, insert)
             /\ payments' = IF err = NoErr THEN Create(payment) ELSE payments
             /\ posts' = IF err = NoErr THEN Append(posts, NoPosts) ELSE posts
             /\ events' = IF err = NoErr /\ insert # "event"
                          THEN Insert(events, PaymentEvent(stored.ID, "payment_created",
                                                           Nil, stored.Status))
                          ELSE events
             /\ resp' = IF err = NoErr
                        THEN Response("create", NoErr, Ptr(stored), 0)
                        ELSE Response("create", err, Nil, 0)
    /\ req' = [ req EXCEPT ![t] = IdleThread ]
    /\ UNCHANGED << callbacks, sessions, rec, exp, dsp, now, cfg, inputs, nextHash >>


\* Server.CreatePayment / PaymentController.CreatePayment: a request that fails
\* validation is answered without the service being called.
ServerCreatePaymentRejected(t, in) ==
    /\ FreeThread(t)
    /\ CanSpend
    /\ Validate(in) # NoErr
    /\ quota' = Spend("create")
    /\ resp' = Response("create", Validate(in), Nil, 0)
    /\ UNCHANGED << payments, events, callbacks, sessions, posts, req, rec, exp, dsp,
                    now, cfg, inputs, nextHash >>

ServerCreatePaymentAccepted(t, in) ==
    /\ Validate(in) = NoErr
    /\ CreatePaymentLookup(t, in)

\* ------------------------------------------------------------ CancelPayment
\* CancelPayment: the error it returns before it changes anything.
CancelPaymentErrUnguarded(find, found) ==
    IF find = "find" THEN ErrStorage
    ELSE IF found = Nil THEN ErrPaymentNotFound
    ELSE NoErr

CancelPaymentErr(find, found) ==
    IF find = "find" THEN ErrStorage
    ELSE IF found = Nil THEN ErrPaymentNotFound
    ELSE IF Deref(found).Status = PAYMENT_STATUS_PAID THEN ErrInvalidStatus
    ELSE NoErr

\* CancelPayment up to the update: FindByID, the PAID check and the changes
\* made to the loaded entity.
CancelPaymentFind(t, id) ==
    /\ FreeThread(t)
    /\ CanSpend
    /\ \E find \in Outcomes({ "find" }) :
         LET found == FindByID(id)
             err == CancelPaymentErr(find, found)
             canceled == [ markForCallbackDelivery(
                             [ Deref(found) EXCEPT !.Status = PAYMENT_STATUS_CANCELED ], now)
                           EXCEPT !.UpdatedAt = now ]
         IN  /\ quota' = SpendFault(Spend("cancel"), find)
             /\ req' = IF err = NoErr
                       THEN [ req EXCEPT ![t] =
                                [ IdleThread EXCEPT !.op = "cancel",
                                                    !.now = now,
                                                    !.oldStatus = Deref(found).Status,
                                                    !.payment = Ptr(canceled) ] ]
                       ELSE req
             /\ resp' = IF err = NoErr THEN NoResponse
                        ELSE Response("cancel", err, Nil, 0)
    /\ UNCHANGED << payments, events, callbacks, sessions, posts, rec, exp, dsp,
                    now, cfg, inputs, nextHash >>

\* CancelPayment from the update on: paymentRepo.Update, then the best-effort
\* payment_canceled event.
CancelPaymentUpdate(t) ==
    /\ req[t].op = "cancel"
    /\ \E write \in Outcomes({ "update", "event" }) :
         LET payment == Deref(req[t].payment)
             err == IF write = "update" THEN ErrStorage ELSE UpdateErr(payment)
         IN  /\ quota' = SpendFault(quota, write)
             /\ payments' = IF err = NoErr THEN Update(payment) ELSE payments
             /\ posts' = IF err = NoErr THEN Rearmed(payment.ID) ELSE posts
             /\ events' = IF err = NoErr /\ write # "event"
                          THEN Insert(events,
                                      PaymentEvent(payment.ID, "payment_canceled",
                                                   Ptr(req[t].oldStatus), payment.Status))
                          ELSE events
             /\ resp' = IF err = NoErr
                        THEN Response("cancel", NoErr, Ptr(payment), 0)
                        ELSE Response("cancel", err, Nil, 0)
    /\ req' = [ req EXCEPT ![t] = IdleThread ]
    /\ UNCHANGED << callbacks, sessions, rec, exp, dsp, now, cfg, inputs, nextHash >>

\* --------------------------------------------------- HandleProviderCallback
Payloads ==
    LET base == [ json |-> TRUE, type |-> "checkout.session.completed", id |-> "cs_1" ]
    IN  { base,
          [ base EXCEPT !.type = "checkout.session.async_payment_failed" ],
          [ base EXCEPT !.type = "checkout.session.expired" ],
          [ base EXCEPT !.type = "invoice.paid", !.id = "in_1" ],
          [ base EXCEPT !.type = "customer.subscription.deleted", !.id = "sub_1" ],
          [ base EXCEPT !.type = "charge.refunded", !.id = "ch_1" ],
          [ base EXCEPT !.json = FALSE ] }

\* The webhooks that arrive: for every payment's callback hash, every payload
\* under a valid signature and one under an invalid signature; for a hash no
\* payment has, one valid payload under each spelling of the provider tag.
ProviderTags == { "stripe", "STRIPE", " stripe ", "1", "PayPal" }

CallbackRequests ==
    LET hashes == { payments[i].ProviderCallbackHash : i \in PaymentIDs }
        first == [ Provider |-> "stripe", CallbackHash |-> 0, Signature |-> "valid",
                   Payload |-> [ json |-> TRUE, type |-> "checkout.session.completed",
                                 id |-> "cs_1" ] ]
    IN  { [ first EXCEPT !.CallbackHash = h, !.Payload = p ] :
          h \in hashes, p \in inputs.payloads }
        \cup { [ first EXCEPT !.Provider = tag ] : tag \in inputs.tags }
        \cup { [ first EXCEPT !.CallbackHash = h, !.Signature = "invalid" ] :
               h \in hashes }

ApplyEventUnarmed(payment, parsedEvent, t) ==
    LET p1 == IF parsedEvent.ProviderPaymentID # Nil
              THEN [ payment EXCEPT !.ProviderPaymentID = parsedEvent.ProviderPaymentID ]
              ELSE payment
        p2 == IF parsedEvent.ProviderSubscriptionID # Nil
              THEN [ p1 EXCEPT !.ProviderSubscriptionID = parsedEvent.ProviderSubscriptionID ]
              ELSE p1
        p3 == IF parsedEvent.NewStatus > 0
              THEN [ p2 EXCEPT !.Status = parsedEvent.NewStatus ]
              ELSE p2
    IN  [ p3 EXCEPT !.UpdatedAt = t ]

\* The changes HandleProviderCallback makes to the loaded entity.
ApplyEvent(payment, parsedEvent, t) ==
    LET p1 == IF parsedEvent.ProviderPaymentID # Nil
              THEN [ payment EXCEPT !.ProviderPaymentID = parsedEvent.ProviderPaymentID ]
              ELSE payment
        p2 == IF parsedEvent.ProviderSubscriptionID # Nil
              THEN [ p1 EXCEPT !.ProviderSubscriptionID = parsedEvent.ProviderSubscriptionID ]
              ELSE p1
        p3 == IF parsedEvent.NewStatus > 0
              THEN [ p2 EXCEPT !.Status = parsedEvent.NewStatus ]
              ELSE p2
        p4 == IF p3.Status # payment.Status /\ terminalStatus(p3.Status)
              THEN markForCallbackDelivery(p3, t)
              ELSE p3
    IN  [ p4 EXCEPT !.UpdatedAt = t ]

\* persistRejectedCallback: the insert is best-effort.
RejectedCallback(in, reason) ==
    PaymentCallback(Nil, in.CallbackHash, paymentCallbackStatusRejected, Ptr(reason))

\* HandleProviderCallback up to the update: provider resolution, verification,
\* FindByCallbackHash and the changes made to the loaded entity.
HandleProviderCallbackFind(t, in) ==
    /\ FreeThread(t)
    /\ CanSpend
    /\ LET providerCode == parseProviderCode(in.Provider)
           parsedEvent == VerifyAndParseCallback(in.Payload, in.Signature)
       IN  \E found \in FindByCallbackHash(providerCode, in.CallbackHash),
              io \in Outcomes({ "find", "callback" }) :
             LET err ==
                   IF providerCode = 0 \/ RegistryGet(providerCode) # NoErr
                   THEN ErrProviderUnsupported
                   ELSE IF parsedEvent = Nil THEN ErrCallbackRejected
                   ELSE IF io = "find" THEN ErrStorage
                   ELSE IF found = Nil THEN ErrPaymentNotFound
                   ELSE NoErr
                 rejected == err \in { ErrCallbackRejected, ErrPaymentNotFound }
                 persisted == rejected /\ io # "callback"
                 reason == IF err = ErrCallbackRejected
                           THEN "provider callback validation failed"
                           ELSE "payment not found for callback hash"
             IN  /\ (io = "find" => err = ErrStorage)
                 /\ (io = "callback" => rejected)
                 /\ quota' = SpendFault(Spend("callback"), io)
                 /\ callbacks' = IF persisted
                                 THEN Insert(callbacks, RejectedCallback(in, reason))
                                 ELSE callbacks
                 /\ req' = IF err = NoErr
                           THEN [ req EXCEPT ![t] =
                                    [ IdleThread EXCEPT
                                        !.op = "callback",
                                        !.now = now,
                                        !.oldStatus = Deref(found).Status,
                                        !.eventType = Deref(parsedEvent).EventType,
                                        !.payment = Ptr(ApplyEvent(Deref(found),
                                                          Deref(parsedEvent), now)) ] ]
                           ELSE req
                 /\ resp' = IF err = NoErr THEN NoResponse
                            ELSE Response("callback", err, Nil,
                                          IF persisted THEN 1 ELSE 0)
    /\ UNCHANGED << payments, events, sessions, posts, rec, exp, dsp, now, cfg,
                    inputs, nextHash >>

\* HandleProviderCallback from the update on: paymentRepo.Update, the
\* best-effort PaymentEvent, then the processed PaymentCallback.
HandleProviderCallbackUpdate(t) ==
    /\ req[t].op = "callback"
    /\ \E write \in Outcomes({ "update", "event", "callback" }) :
         LET payment == Deref(req[t].payment)
             oldStatus == req[t].oldStatus
             updateErr == IF write = "update" THEN ErrStorage ELSE UpdateErr(payment)
             eventType == IF TrimSpace(req[t].eventType) = "" THEN "provider_callback"
                          ELSE TrimSpace(req[t].eventType)
             oldStatusPtr == IF oldStatus = payment.Status THEN Nil ELSE Ptr(oldStatus)
             armed == /\ payment.Status # oldStatus
                      /\ terminalStatus(payment.Status)
         IN  /\ quota' = SpendFault(quota, write)
             /\ payments' = IF updateErr = NoErr THEN Update(payment) ELSE payments
             /\ posts' = IF updateErr = NoErr /\ armed THEN Rearmed(payment.ID) ELSE posts
             /\ events' = IF updateErr = NoErr /\ write # "event"
                          THEN Insert(events, PaymentEvent(payment.ID, eventType,
                                                           oldStatusPtr, payment.Status))
                          ELSE events
             /\ callbacks' = IF updateErr = NoErr /\ write # "callback"
                             THEN Insert(callbacks,
                                         PaymentCallback(Ptr(payment.ID),
                                                         payment.ProviderCallbackHash,
                                                         paymentCallbackStatusProcessed, Nil))
                             ELSE callbacks
             /\ resp' = CASE updateErr # NoErr -> Response("callback", updateErr, Nil, 0)
                          [] write = "callback" -> Response("callback", ErrStorage, Nil, 0)
                          [] OTHER -> Response("callback", NoErr, Ptr(payment), 1)
    /\ req' = [ req EXCEPT ![t] = IdleThread ]
    /\ UNCHANGED << sessions, rec, exp, dsp, now, cfg, inputs, nextHash >>


\* ------------------------------------------------------------ batch workers
\* A batch routine returns once its last item is done.
AfterItem(worker, op, err) ==
    LET firstErr == keepFirstErr(worker.firstErr, err)
    IN  IF Len(worker.items) = 1
        THEN << IdleWorker, Response(op, firstErr, Nil, 0) >>
        ELSE << [ worker EXCEPT !.items = Tail(@), !.firstErr = firstErr ], NoResponse >>

AfterList(op, items, t, err) ==
    IF err # NoErr THEN << IdleWorker, Response(op, err, Nil, 0) >>
    ELSE IF items = << >> THEN << IdleWorker, Response(op, NoErr, Nil, 0) >>
    ELSE << [ IdleWorker EXCEPT !.pc = "run", !.items = items, !.now = t ], NoResponse >>

ListErr(list) == IF list = "list" THEN ErrStorage ELSE NoErr

\* RunReconcileBatch: the listing.
RunReconcileBatchList ==
    /\ rec.pc = "idle"
    /\ CanSpend
    /\ \E items \in ListForReconcile(now - cfg.ReconcileStaleAfter, batchSize),
          list \in Outcomes({ "list" }) :
         LET after == AfterList("reconcile", items, now, ListErr(list))
         IN  /\ rec' = after[1]
             /\ resp' = after[2]
             /\ quota' = SpendFault(Spend("reconcile"), list)
    /\ UNCHANGED << payments, events, callbacks, sessions, posts, req, exp, dsp,
                    now, cfg, inputs, nextHash >>

\* What Provider.GetPaymentStatus may answer for a session id: for an id whose
\* session the provider holds unchanged, the status of that session; else an
\* error or the status of any session.
GetPaymentStatus(providerPaymentID) ==
    IF TrimSpace(providerPaymentID) = ""
    THEN { [ err |-> NoErr, status |-> 0, session |-> Nil ] }
    ELSE IF providerPaymentID \in DOMAIN inputs.held
    THEN { [ err |-> NoErr, status |-> StripeSessionStatus(inputs.held[providerPaymentID]),
             session |-> Ptr(inputs.held[providerPaymentID]) ] }
    ELSE { [ err |-> ErrProvider, status |-> 0, session |-> Nil ] }
         \cup { [ err |-> NoErr, status |-> StripeSessionStatus(s), session |-> Ptr(s) ] :
                 s \in inputs.stripe }

\* RunReconcileBatch: one iteration of the loop over the listed payments.
RunReconcileBatchItem ==
    /\ rec.pc = "run"
    /\ LET payment == Head(rec.items)
           skipped == \/ payment.ProviderPaymentID = Nil
                      \/ TrimSpace(Deref(payment.ProviderPaymentID)) = ""
           ids == IF skipped THEN "" ELSE Deref(payment.ProviderPaymentID)
       IN  \E answer \in GetPaymentStatus(ids),
              write \in Outcomes({ "update", "event" }) :
             LET newStatus == answer.status
                 changed == /\ ~skipped
                            /\ RegistryGet(payment.Provider) = NoErr
                            /\ answer.err = NoErr
                            /\ newStatus # 0
                            /\ newStatus # payment.Status
                 moved == [ payment EXCEPT !.Status = newStatus ]
                 armed == IF terminalStatus(newStatus)
                          THEN markForCallbackDelivery(moved, rec.now)
                          ELSE moved
                 updated == [ armed EXCEPT !.UpdatedAt = rec.now ]
                 updateErr == IF write = "update" THEN ErrStorage ELSE UpdateErr(updated)
                 err == IF skipped THEN NoErr
                        ELSE IF RegistryGet(payment.Provider) # NoErr
                        THEN RegistryGet(payment.Provider)
                        ELSE IF answer.err # NoErr THEN answer.err
                        ELSE IF changed THEN updateErr
                        ELSE NoErr
                 stored == changed /\ updateErr = NoErr
                 after == AfterItem(rec, "reconcile", err)
             IN  /\ (write # "ok" => changed)
                 /\ quota' = SpendFault(quota, write)
                 /\ payments' = IF stored THEN Update(updated) ELSE payments
                 /\ posts' = IF stored /\ terminalStatus(newStatus)
                             THEN Rearmed(payment.ID) ELSE posts
                 /\ events' = IF stored /\ write # "event"
                              THEN Insert(events,
                                          PaymentEvent(payment.ID, "payment_reconciled",
                                                       Ptr(payment.Status), newStatus))
                              ELSE events
                 /\ rec' = [ after[1] EXCEPT !.answer = IF skipped THEN Nil
                                                        ELSE Ptr(answer) ]
                 /\ resp' = after[2]
    /\ UNCHANGED << callbacks, sessions, req, exp, dsp, now, cfg, inputs, nextHash >>

\* RunExpirePendingBatch: the listing.
RunExpirePendingBatchList ==
    /\ exp.pc = "idle"
    /\ CanSpend
    /\ \E items \in ListExpiredPending(now - cfg.PendingTimeout, batchSize),
          list \in Outcomes({ "list" }) :
         LET after == AfterList("expire", items, now, ListErr(list))
         IN  /\ exp' = after[1]
             /\ resp' = after[2]
             /\ quota' = SpendFault(Spend("expire"), list)
    /\ UNCHANGED << payments, events, callbacks, sessions, posts, req, rec, dsp,
                    now, cfg, inputs, nextHash >>

\* RunExpirePendingBatch: one iteration of the loop over the listed payments.
RunExpirePendingBatchItem ==
    /\ exp.pc = "run"
    /\ \E write \in Outcomes({ "update", "event" }) :
         LET payment == Head(exp.items)
             skipped == payment.Status = PAYMENT_STATUS_EXPIRED
             expired == [ markForCallbackDelivery(
                            [ payment EXCEPT !.Status = PAYMENT_STATUS_EXPIRED ], exp.now)
                          EXCEPT !.UpdatedAt = exp.now ]
             updateErr == IF write = "update" THEN ErrStorage ELSE UpdateErr(expired)
             stored == ~skipped /\ updateErr = NoErr
             after == AfterItem(exp, "expire", IF skipped THEN NoErr ELSE updateErr)
         IN  /\ (write # "ok" => ~skipped)
             /\ quota' = SpendFault(quota, write)
             /\ payments' = IF stored THEN Update(expired) ELSE payments
             /\ posts' = IF stored THEN Rearmed(payment.ID) ELSE posts
             /\ events' = IF stored /\ write # "event"
                          THEN Insert(events, PaymentEvent(payment.ID, "payment_expired",
                                                           Ptr(payment.Status),
                                                           expired.Status))
                          ELSE events
             /\ exp' = after[1]
             /\ resp' = after[2]
    /\ UNCHANGED << callbacks, sessions, req, rec, dsp, now, cfg, inputs, nextHash >>

\* RunDispatchCallbacksBatch: the listing.
RunDispatchCallbacksBatchList ==
    /\ dsp.pc = "idle"
    /\ CanSpend
    /\ \E items \in ListDueCallbackDispatch(now, batchSize),
          list \in Outcomes({ "list" }) :
         LET after == AfterList("dispatch", items, now, ListErr(list))
         IN  /\ dsp' = after[1]
             /\ resp' = after[2]
             /\ quota' = SpendFault(Spend("dispatch"), list)
    /\ UNCHANGED << payments, events, callbacks, sessions, posts, req, rec, exp,
                    now, cfg, inputs, nextHash >>

recordDispatchFailureBackoff(payment, t, dispatchErr) ==
    LET attempts == payment.CallbackDeliveryAttempts + 1
        maxAttempts == IF cfg.CallbackMaxAttempts <= 0 THEN 1
                       ELSE cfg.CallbackMaxAttempts
        retryInterval == IF cfg.CallbackRetryInterval <= 0 THEN defaultRetryInterval
                         ELSE cfg.CallbackRetryInterval
        counted == [ payment EXCEPT !.CallbackDeliveryAttempts = attempts,
                                    !.CallbackDeliveryLastErr = Ptr(dispatchErr) ]
        next == IF attempts >= maxAttempts
                THEN [ counted EXCEPT !.CallbackDeliveryStatus = CallbackDeliveryFailed,
                                      !.CallbackDeliveryNextAt = Nil ]
                ELSE [ counted EXCEPT !.CallbackDeliveryStatus = CallbackDeliveryPending,
                                      !.CallbackDeliveryNextAt =
                                          Ptr(t + retryInterval * attempts) ]
    IN  [ next EXCEPT !.UpdatedAt = t ]

\* recordDispatchFailure: the changes made to the entity.
recordDispatchFailureOneMore(payment, t, dispatchErr) ==
    LET attempts == payment.CallbackDeliveryAttempts + 1
        maxAttempts == IF cfg.CallbackMaxAttempts <= 0 THEN 1
                       ELSE cfg.CallbackMaxAttempts
        retryInterval == IF cfg.CallbackRetryInterval <= 0 THEN defaultRetryInterval
                         ELSE cfg.CallbackRetryInterval
        counted == [ payment EXCEPT !.CallbackDeliveryAttempts = attempts,
                                    !.CallbackDeliveryLastErr = Ptr(dispatchErr),
                                    !.UpdatedAt = t ]
    IN  IF attempts > maxAttempts
        THEN [ counted EXCEPT !.CallbackDeliveryStatus = CallbackDeliveryFailed,
                              !.CallbackDeliveryNextAt = Nil ]
        ELSE [ counted EXCEPT !.CallbackDeliveryStatus = CallbackDeliveryPending,
                              !.CallbackDeliveryNextAt = Ptr(t + retryInterval) ]

recordDispatchFailure(payment, t, dispatchErr) ==
    LET attempts == payment.CallbackDeliveryAttempts + 1
        maxAttempts == IF cfg.CallbackMaxAttempts <= 0 THEN 1
                       ELSE cfg.CallbackMaxAttempts
        retryInterval == IF cfg.CallbackRetryInterval <= 0 THEN defaultRetryInterval
                         ELSE cfg.CallbackRetryInterval
        counted == [ payment EXCEPT !.CallbackDeliveryAttempts = attempts,
                                    !.CallbackDeliveryLastErr = Ptr(dispatchErr) ]
        next == IF attempts >= maxAttempts
                THEN [ counted EXCEPT !.CallbackDeliveryStatus = CallbackDeliveryFailed,
                                      !.CallbackDeliveryNextAt = Nil ]
                ELSE [ counted EXCEPT !.CallbackDeliveryStatus = CallbackDeliveryPending,
                                      !.CallbackDeliveryNextAt = Ptr(t + retryInterval) ]
    IN  [ next EXCEPT !.UpdatedAt = t ]

\* How the delivery of a payment to its status_callback_url goes: "none" when
\* dispatchCallback makes no request (the URL is empty, or http.NewRequest
\* rejects it), else the endpoint's answer; "crash" is the worker stopping
\* after the POST, before the outcome is stored, and "stop" its stopping
\* before it does anything for the payment.
Deliveries(payment) ==
    ( IF TrimSpace(payment.StatusCallbackURL) \in { "", "://bad" }
      THEN { "none" }
      ELSE { "2xx", "5xx", "transport" }
           \cup (IF quota.crash > 0 THEN { "crash" } ELSE {}) )
    \cup (IF quota.crash > 0 THEN { "stop" } ELSE {})

dispatchCallbackKeepsLastErr(payment, t, delivery) ==
    IF TrimSpace(payment.StatusCallbackURL) = ""
    THEN [ payment EXCEPT !.CallbackDeliveryStatus = CallbackDeliveryFailed,
                          !.CallbackDeliveryNextAt = Nil,
                          !.CallbackDeliveryLastErr = Ptr("status_callback_url is empty"),
                          !.UpdatedAt = t ]
    ELSE IF delivery = "2xx"
    THEN [ payment EXCEPT !.CallbackDeliveryStatus = CallbackDeliverySuccess,
                          !.CallbackDeliveryNextAt = Nil,
                          !.UpdatedAt = t ]
    ELSE recordDispatchFailure(payment, t, delivery)

dispatchCallbackCountsEmpty(payment, t, delivery) ==
    IF delivery = "2xx"
    THEN [ payment EXCEPT !.CallbackDeliveryStatus = CallbackDeliverySuccess,
                          !.CallbackDeliveryNextAt = Nil,
                          !.CallbackDeliveryLastErr = Nil,
                          !.UpdatedAt = t ]
    ELSE recordDispatchFailure(payment, t,
                               IF TrimSpace(payment.StatusCallbackURL) = ""
                               THEN "status_callback_url is empty" ELSE delivery)

\* dispatchCallback: the entity it stores for a delivery that went `delivery`.
dispatchCallback(payment, t, delivery) ==
    IF TrimSpace(payment.StatusCallbackURL) = ""
    THEN [ payment EXCEPT !.CallbackDeliveryStatus = CallbackDeliveryFailed,
                          !.CallbackDeliveryNextAt = Nil,
                          !.CallbackDeliveryLastErr = Ptr("status_callback_url is empty"),
                          !.UpdatedAt = t ]
    ELSE IF delivery = "2xx"
    THEN [ payment EXCEPT !.CallbackDeliveryStatus = CallbackDeliverySuccess,
                          !.CallbackDeliveryNextAt = Nil,
                          !.CallbackDeliveryLastErr = Nil,
                          !.UpdatedAt = t ]
    ELSE recordDispatchFailure(payment, t, delivery)

\* RunDispatchCallbacksBatch: one iteration of the loop over the listed payments.
RunDispatchCallbacksBatchItem ==
    /\ dsp.pc = "run"
    /\ LET payment == Head(dsp.items)
       IN  \E delivery \in Deliveries(payment),
              write \in Outcomes({ "update", "event" }) :
             LET posted == delivery \notin { "none", "stop" }
                 crashed == delivery \in { "crash", "stop" }
                 empty == TrimSpace(payment.StatusCallbackURL) = ""
                 updated == dispatchCallback(payment, dsp.now, delivery)
                 updateErr == IF write = "update" THEN ErrStorage ELSE UpdateErr(updated)
                 stored == ~crashed /\ updateErr = NoErr
                 eventType == IF delivery = "2xx" THEN "callback_dispatched"
                              ELSE "callback_dispatch_failed"
                 err == IF updateErr # NoErr THEN updateErr
                        ELSE IF empty \/ delivery = "2xx" THEN NoErr
                        ELSE ErrDispatch
                 after == AfterItem(dsp, "dispatch", err)
             IN  /\ (write # "ok" => ~crashed)
                 /\ (write = "event" => ~empty)
                 /\ quota' = IF crashed THEN [ quota EXCEPT !.crash = @ - 1 ]
                             ELSE SpendFault(quota, write)
                 /\ posts' = IF posted
                             THEN [ posts EXCEPT
                                      ![payment.ID].sinceArm = @ + 1,
                                      ![payment.ID].last = delivery,
                                      ![payment.ID].acked =
                                          IF delivery \in { "2xx", "crash" }
                                          THEN payment.Status ELSE @ ]
                             ELSE posts
                 /\ payments' = IF stored THEN Update(updated) ELSE payments
                 /\ events' = IF stored /\ ~empty /\ write # "event"
                              THEN Insert(events, PaymentEvent(payment.ID, eventType,
                                                               Nil, payment.Status))
                              ELSE events
                 /\ dsp' = IF crashed THEN IdleWorker ELSE after[1]
                 /\ resp' = IF crashed THEN NoResponse ELSE after[2]
    /\ UNCHANGED << callbacks, sessions, req, rec, exp, now, cfg, inputs, nextHash >>

\* ------------------------------------------------------------------- clock
Tick ==
    /\ now < MaxTime
    /\ now' = now + 1
    /\ UNCHANGED << payments, events, callbacks, sessions, posts, req, rec, exp,
                    dsp, resp, quota, cfg, inputs, nextHash >>

\* ----------------------------------------------------------- specification
Config ==
    [ CallbackMaxAttempts |-> CallbackMaxAttempts,
      CallbackRetryInterval |-> CallbackRetryInterval,
      PendingTimeout |-> PendingTimeout,
      ReconcileStaleAfter |-> ReconcileStaleAfter,
      JobBatchSize |-> JobBatchSize,
      ClientFoundRows |-> TRUE ]

\* The MySQL connection reports matched rows or, the driver's default, changed
\* rows as RowsAffected.
Configs == { [ Config EXCEPT !.ClientFoundRows = b ] : b \in BOOLEAN }

Quota == [ ops |-> MaxOps, metered |-> TRUE, fault |-> 0, crash |-> 0 ]

\* The lifecycle of one payment: one request key, the webhooks that map to
\* PAID, to CANCELED and to no status, and a webhook under an unknown tag.
Inputs ==
    [ initial |-> { PAYMENT_STATUS_PENDING },
      collide |-> FALSE,
      stripe |-> StripeSessionKinds,
      held |-> << >>,
      requests |-> { r \in CreateRequests :
                      r.RequestId = "r1" /\ r.Provider = 0
                      /\ r.CallerService = "subs" /\ r.StatusCallbackUrl # "" },
      sessions |-> { Ptr("cs_1") },
      payloads |-> { p \in Payloads :
                      p.json /\ p.type \in { "checkout.session.completed",
                                             "customer.subscription.deleted",
                                             "charge.refunded" } },
      tags |-> { "stripe", "PayPal" } ]

\* The state after construction: empty tables, idle handlers and workers.
Start(q, c, in) ==
    /\ payments = << >>
    /\ events = EmptyBag
    /\ callbacks = EmptyBag
    /\ sessions = {}
    /\ posts = << >>
    /\ req = [ t \in Threads |-> IdleThread ]
    /\ rec = IdleWorker
    /\ exp = IdleWorker
    /\ dsp = IdleWorker
    /\ resp = NoResponse
    /\ now = 0
    /\ quota = q
    /\ cfg \in c
    /\ inputs = in
    /\ nextHash = 1

Init == Start(Quota, Configs, Inputs)

CreatePayment == \E t \in Threads :
    \/ \E in \in inputs.requests : CreatePaymentLookup(t, in)
    \/ CreatePaymentInsert(t)

CancelPayment == \E t \in Threads :
    \/ \E id \in 1 .. Len(payments) + 1 : CancelPaymentFind(t, id)
    \/ CancelPaymentUpdate(t)

HandleProviderCallback == \E t \in Threads :
    \/ \E in \in CallbackRequests : HandleProviderCallbackFind(t, in)
    \/ HandleProviderCallbackUpdate(t)

RunReconcileBatch == RunReconcileBatchList \/ RunReconcileBatchItem

RunExpirePendingBatch == RunExpirePendingBatchList \/ RunExpirePendingBatchItem

RunDispatchCallbacksBatch == RunDispatchCallbacksBatchList \/ RunDispatchCallbacksBatchItem

Next ==
    \/ CreatePayment
    \/ CancelPayment
    \/ HandleProviderCallback
    \/ RunReconcileBatch
    \/ RunExpirePendingBatch
    \/ RunDispatchCallbacksBatch
    \/ Tick

Spec == Init /\ [][Next]_vars


\* ------------------------------------------------- creation and idempotency
\* Creation under every request of CreateRequests, with cancellation in
\* between; the clock stands still.
InputsCreate == [ Inputs EXCEPT !.requests = CreateRequests ]

InitCreate == Start(Quota, Configs, InputsCreate)

NextCreate ==
    \/ CreatePayment
    \/ CancelPayment

SpecCreate == InitCreate /\ [][NextCreate]_vars

\* The ids of the rows stored under (caller_service, request_id) in `table`.
RowsOf(table, callerService, requestID) ==
    { i \in 1 .. Len(table) : /\ table[i].CallerService = callerService
                              /\ table[i].RequestID = requestID }

\* The answer returns the payment with id `id`.
Returns(answer, id) ==
    /\ answer.op = "create"
    /\ answer.err = NoErr
    /\ answer.payment # Nil
    /\ Deref(answer.payment).ID = id

\* The insert step of thread t leaves exactly one row under its key, and its
\* answer is that row's id or, for the loser of a race, PaymentAlreadyExists.
InsertAnswers(t, loserAnswers) ==
    LET payment == Deref(req[t].payment)
        rows == RowsOf(payments', payment.CallerService, payment.RequestID)
    IN  /\ Cardinality(rows) = 1
        /\ \/ \E id \in rows : Returns(resp', id)
           \/ /\ resp' \in loserAnswers
              /\ resp'.op = "create"

\* The lookup step of thread t for request `in`, when it answers with a
\* payment, answers with the id of the one row under the request's key.
LookupAnswers(in) ==
    LET rows == RowsOf(payments', TrimSpace(in.CallerService), TrimSpace(in.RequestId))
    IN  resp'.payment # Nil =>
          /\ Cardinality(rows) = 1
          /\ \E id \in rows : Returns(resp', id)

C8_ExistingKeyReturnsStored ==
    [][ \A t \in Threads : \A in \in inputs.requests :
          \A i \in RowsOf(payments, TrimSpace(in.CallerService),
                          TrimSpace(in.RequestId)) :
            CreatePaymentLookup(t, in) =>
              /\ resp' = Response("create", NoErr, Ptr(payments[i]), 0)
              /\ UNCHANGED << payments, events, callbacks, sessions, nextHash, req >>
      ]_vars

\* A create was answered with a stored payment that had been canceled since.
C8_Witness ==
    \E i \in PaymentIDs :
        /\ Returns(resp, i)
        /\ resp.payment = Ptr(payments[i])
        /\ payments[i].Status = PAYMENT_STATUS_CANCELED

\* C9: of two creates under one key that both passed the lookup, the first
\* insert stores the row and the payment_created event; the second is refused
\* by the unique index: it returns PaymentAlreadyExists and stores neither a
\* row nor an event.
C9_RaceLoserStoresNothing ==
    [][ \A t \in Threads :
          CreatePaymentInsert(t) =>
            LET payment == Deref(req[t].payment)
                taken == RowsOf(payments, payment.CallerService, payment.RequestID)
                id == Len(payments) + 1
            IN  IF taken # {}
                THEN /\ resp' = Response("create", ErrPaymentAlreadyExists, Nil, 0)
                     /\ UNCHANGED << payments, events >>
                ELSE /\ Len(payments') = id
                     /\ Returns(resp', id)
                     /\ events' = Insert(events, PaymentEvent(id, "payment_created",
                                                              Nil, payment.Status))
      ]_vars

\* Both racing creates are done: one row, one payment_created event, and the
\* last answer is PaymentAlreadyExists.
C9_Witness ==
    /\ resp = Response("create", ErrPaymentAlreadyExists, Nil, 0)
    /\ \A t \in Threads : req[t].op = "idle"
    /\ Len(payments) = 1
    /\ BagCardinality(events) = 1


\* C23: a CreatePayment call that returns an error (InvalidRequest for a
\* missing request_id or caller_service, ProviderUnsupported, the provider's
\* error, PaymentAlreadyExists) changes neither the stored payments nor the
\* payment events at any of its steps; InvalidRequest and ProviderUnsupported
\* are returned before a callback hash is drawn and the provider is called.
C23_FailedCreateStoresNothing ==
    [][ \A t \in Threads :
          /\ \A in \in inputs.requests :
               CreatePaymentLookup(t, in) =>
                 LET missing == \/ TrimSpace(in.RequestId) = ""
                                \/ TrimSpace(in.CallerService) = ""
                     known == RowsOf(payments, TrimSpace(in.CallerService),
                                     TrimSpace(in.RequestId)) # {}
                     unsupported == in.Provider \notin { 0, PROVIDER_TYPE_STRIPE }
                 IN  /\ payments' = payments
                     /\ events' = events
                     /\ missing => resp'.err = ErrInvalidRequest
                     /\ (~missing /\ ~known /\ unsupported) =>
                          resp'.err = ErrProviderUnsupported
                     /\ resp'.err \in { ErrInvalidRequest, ErrProviderUnsupported } =>
                          /\ nextHash' = nextHash
                          /\ sessions' = sessions
                     /\ resp'.err # NoErr =>
                          /\ req'[t] = IdleThread
                          /\ resp'.err \in { ErrInvalidRequest, ErrProviderUnsupported,
                                             ErrProvider }
          /\ (CreatePaymentInsert(t) /\ resp'.err # NoErr) =>
               /\ resp'.err = ErrPaymentAlreadyExists
               /\ payments' = payments
               /\ events' = events ]_vars

\* With one payment stored, a request naming a provider that is not
\* registered was refused: still one payment, one event, one hash drawn.
C23_Witness ==
    /\ resp = Response("create", ErrProviderUnsupported, Nil, 0)
    /\ Len(payments) = 1
    /\ BagCardinality(events) = 1
    /\ Cardinality(sessions) = 1
    /\ nextHash = 2
\* ------------------------------------------------------- the status machine
\* C2: once a payment's status is PAID, FAILED, CANCELED or EXPIRED, no
\* operation changes it; a terminal-status webhook replayed for a canceled
\* payment leaves it CANCELED.
C2_TerminalStatusNeverChanges ==
    [][ \A i \in PaymentIDs :
          terminalStatus(payments[i].Status) =>
            payments'[i].Status = payments[i].Status ]_vars

\* C3: HandleProviderCallback, having loaded a payment whose status is
\* terminal, stores it with the status and the delivery sub-state it loaded.
C3_CallbackKeepsTerminalStatus ==
    [][ \A t \in Threads :
          (HandleProviderCallbackUpdate(t) /\ terminalStatus(req[t].oldStatus)) =>
            LET id == Deref(req[t].payment).ID
            IN  /\ payments'[id].Status = req[t].oldStatus
                /\ payments[id].Status = req[t].oldStatus =>
                     /\ payments'[id].CallbackDeliveryStatus
                          = payments[id].CallbackDeliveryStatus
                     /\ payments'[id].CallbackDeliveryAttempts
                          = payments[id].CallbackDeliveryAttempts
                     /\ payments'[id].CallbackDeliveryNextAt
                          = payments[id].CallbackDeliveryNextAt ]_vars

\* The transitions invariant 3 permits.
Permitted(old, new) ==
    \/ old = PAYMENT_STATUS_CREATED /\ new = PAYMENT_STATUS_PENDING
    \/ old = PAYMENT_STATUS_PENDING /\ new = PAYMENT_STATUS_PROCESSING
    \/ /\ old \in { PAYMENT_STATUS_PENDING, PAYMENT_STATUS_PROCESSING }
       /\ terminalStatus(new)

\* C4: every change of a payment's status is one of CREATED -> PENDING,
\* PENDING -> PROCESSING, PENDING or PROCESSING -> a terminal status.
C4_OnlyPermittedTransitions ==
    [][ \A i \in PaymentIDs :
          payments'[i].Status # payments[i].Status =>
            Permitted(payments[i].Status, payments'[i].Status) ]_vars

\* The delivery sub-state markForCallbackDelivery leaves at time t.
ArmedAt(row, t) ==
    /\ row.CallbackDeliveryStatus = CallbackDeliveryPending
    /\ row.CallbackDeliveryAttempts = 0
    /\ row.CallbackDeliveryNextAt = Ptr(t)
    /\ row.CallbackDeliveryLastErr = Nil

\* The row `id` as this step stores it: if the operation, having read status
\* `old` at time t, moved it into a terminal status, the row is armed at t.
StoresArmed(id, old, t) ==
    (terminalStatus(payments'[id].Status) /\ payments'[id].Status # old) =>
        ArmedAt(payments'[id], t)

C6_OneCallbackRowPerInvocation ==
    [][ (HandleProviderCallback /\ resp'.op = "callback") =>
          \E row \in BagToSet(callbacks' (-) callbacks) :
            /\ callbacks' = Insert(callbacks, row)
            /\ row.Status \in { paymentCallbackStatusProcessed,
                                paymentCallbackStatusRejected } ]_vars

\* The events a step inserts.
NewEvents == events' (-) events

\* C7: every change of a stored status comes with exactly one new
\* PaymentEvent carrying that old and new status, and every new PaymentEvent
\* that carries a change of status is that of a change stored with it.
C7_EventsMatchStoredChanges ==
    [][ /\ \A i \in PaymentIDs :
             payments'[i].Status # payments[i].Status =>
               NewEvents = SetToBag({ [ PaymentID |-> i,
                                        EventType |-> e.EventType,
                                        OldStatus |-> Ptr(payments[i].Status),
                                        NewStatus |-> payments'[i].Status ] :
                                      e \in BagToSet(NewEvents) })
               /\ BagCardinality(NewEvents) = 1
        /\ \A e \in BagToSet(NewEvents) :
             (e.OldStatus # Nil /\ Deref(e.OldStatus) # e.NewStatus) =>
               /\ e.PaymentID \in PaymentIDs
               /\ payments[e.PaymentID].Status = Deref(e.OldStatus)
               /\ payments'[e.PaymentID].Status = e.NewStatus ]_vars

\* ------------------------------------------------------ outbound delivery
\* Two payments created and canceled at time 0, hence armed and due, under
\* every kind of status_callback_url; callback_max_attempts and
\* callback_retry_interval are configured or left at 0.
DispatchRequests ==
    { r \in CreateRequests :
        r.RequestId = "r1" /\ r.CallerService = "subs" /\ r.Provider = 0 }

CanceledPayment(in, id, requestID) ==
    LET out == CHOOSE o \in StripeCreateOutputs(Inputs.sessions) : o.err = NoErr
        created == [ NewPayment(in, PROVIDER_TYPE_STRIPE, out, id, 0)
                     EXCEPT !.ID = id, !.RequestID = requestID ]
    IN  markForCallbackDelivery([ created EXCEPT !.Status = PAYMENT_STATUS_CANCELED ], 0)

DispatchConfigs ==
    { [ c EXCEPT !.CallbackMaxAttempts = m, !.CallbackRetryInterval = r ] :
      c \in Configs, m \in { 0, CallbackMaxAttempts }, r \in { 0, CallbackRetryInterval } }

StartDispatch(q) ==
    /\ payments \in { << CanceledPayment(a, 1, "r1"), CanceledPayment(b, 2, "r2") >> :
                      a \in DispatchRequests, b \in DispatchRequests }
    /\ events = SetToBag({ PaymentEvent(i, type[1], type[2], type[3]) :
                           i \in { 1, 2 },
                           type \in { << "payment_created", Nil, PAYMENT_STATUS_PENDING >>,
                                      << "payment_canceled", Ptr(PAYMENT_STATUS_PENDING),
                                         PAYMENT_STATUS_CANCELED >> } })
    /\ callbacks = EmptyBag
    /\ sessions = { [ RequestID |-> payments[i].RequestID,
                      CallerService |-> payments[i].CallerService,
                      CallbackHash |-> payments[i].ProviderCallbackHash,
                      InitialStatus |-> PAYMENT_STATUS_PENDING ] : i \in { 1, 2 } }
    /\ posts = << NoPosts, NoPosts >>
    /\ req = [ t \in Threads |-> IdleThread ]
    /\ rec = IdleWorker
    /\ exp = IdleWorker
    /\ dsp = IdleWorker
    /\ resp = Response("cancel", NoErr, Ptr(payments[2]), 0)
    /\ now = 0
    /\ quota = q
    /\ cfg \in DispatchConfigs
    /\ inputs = Inputs
    /\ nextHash = 3

InitDispatch == StartDispatch([ Quota EXCEPT !.metered = FALSE ])

\* Time advances while a delivery waits for its next attempt.
TickDue ==
    /\ \E i \in PaymentIDs :
         /\ payments[i].CallbackDeliveryStatus = CallbackDeliveryPending
         /\ payments[i].CallbackDeliveryNextAt # Nil
         /\ Deref(payments[i].CallbackDeliveryNextAt) > now
    /\ now' = now + 1
    /\ UNCHANGED << payments, events, callbacks, sessions, posts, req, rec, exp,
                    dsp, resp, quota, cfg, inputs, nextHash >>

NextDispatch ==
    \/ RunDispatchCallbacksBatch
    \/ TickDue

\* The dispatch worker is invoked again and again, and time advances.
SpecDispatch ==
    /\ InitDispatch
    /\ [][NextDispatch]_vars
    /\ WF_vars(RunDispatchCallbacksBatchList)
    /\ WF_vars(RunDispatchCallbacksBatchItem)
    /\ WF_vars(TickDue)

\* callback_max_attempts, floored at 1.
MaxPosts == IF cfg.CallbackMaxAttempts <= 0 THEN 1 ELSE cfg.CallbackMaxAttempts

Delivered(i) ==
    payments[i].CallbackDeliveryStatus \in { CallbackDeliverySuccess,
                                             CallbackDeliveryFailed }

\* C10: for an armed payment that nothing re-arms, repeated runs of
\* RunDispatchCallbacksBatch with time advancing make at most
\* callback_max_attempts (floored at 1) POSTs; the delivery status eventually
\* is SUCCESS, a 2xx having answered, or FAILED, the attempts being used up
\* (or there being no URL); and from then on the payment gets no POST.
C10_DeliveryEndsWithinBudget ==
    /\ [](\A i \in PaymentIDs :
            /\ posts[i].sinceArm <= MaxPosts
            /\ payments[i].CallbackDeliveryStatus = CallbackDeliverySuccess =>
                 posts[i].acked = payments[i].Status
            /\ payments[i].CallbackDeliveryStatus = CallbackDeliveryFailed =>
                 \/ payments[i].CallbackDeliveryAttempts >= MaxPosts
                 \/ payments[i].StatusCallbackURL = "")
    /\ <>[](\A i \in PaymentIDs : Delivered(i))
    /\ [][ \A i \in PaymentIDs : Delivered(i) => posts'[i] = posts[i] ]_vars

\* One payment used up a budget of two or more POSTs and is FAILED; the
\* other was acknowledged by its second POST and is SUCCESS.
C10_Witness ==
    \E i, j \in PaymentIDs :
        /\ cfg.CallbackMaxAttempts > 1
        /\ payments[i].CallbackDeliveryStatus = CallbackDeliveryFailed
        /\ posts[i].sinceArm = cfg.CallbackMaxAttempts
        /\ payments[j].CallbackDeliveryStatus = CallbackDeliverySuccess
        /\ posts[j].sinceArm > 1


\* callback_retry_interval, 5 minutes when it is not configured.
RetryInterval ==
    IF cfg.CallbackRetryInterval <= 0 THEN defaultRetryInterval
    ELSE cfg.CallbackRetryInterval

\* The dispatch step POSTs for the payment at the head of the batch and the
\* endpoint answers `answers`.
Posted(answers) ==
    /\ RunDispatchCallbacksBatchItem
    /\ LET id == Head(dsp.items).ID
       IN  /\ posts'[id].sinceArm = posts[id].sinceArm + 1
           /\ posts'[id].last \in answers

\* The batch returns `err` once its last item is done, unless an earlier item
\* failed first.
BatchReturns(worker, err) ==
    (Len(worker.items) = 1 /\ worker.firstErr = NoErr) => resp'.err = err

\* C11: a POST that fails (transport error, or a status outside [200, 300))
\* adds exactly 1 to callback_delivery_attempts and records last_err; with
\* the attempts at callback_max_attempts (floored at 1) the delivery is
\* FAILED with next_at NULL, else PENDING with next_at = now +
\* callback_retry_interval whatever the attempt count; one
\* callback_dispatch_failed event is written and the batch gets the error.
C11_FailedPostIsCounted ==
    [][ Posted({ "5xx", "transport" }) =>
          LET id == Head(dsp.items).ID
              old == payments[id]
              new == payments'[id]
          IN  /\ new.CallbackDeliveryAttempts = old.CallbackDeliveryAttempts + 1
              /\ new.CallbackDeliveryLastErr # Nil
              /\ IF new.CallbackDeliveryAttempts >= MaxPosts
                 THEN /\ new.CallbackDeliveryStatus = CallbackDeliveryFailed
                      /\ new.CallbackDeliveryNextAt = Nil
                 ELSE /\ new.CallbackDeliveryStatus = CallbackDeliveryPending
                      /\ new.CallbackDeliveryNextAt = Ptr(dsp.now + RetryInterval)
              /\ events' = Insert(events, PaymentEvent(id, "callback_dispatch_failed",
                                                       Nil, old.Status))
              /\ BatchReturns(dsp, ErrDispatch) ]_vars

\* With a budget of three attempts, one payment is PENDING after its second
\* failed POST, due one interval later, and another has used the budget up
\* and is FAILED.
C11_Witness ==
    \E i, j \in PaymentIDs :
        /\ cfg.CallbackMaxAttempts > 2
        /\ payments[i].CallbackDeliveryStatus = CallbackDeliveryPending
        /\ payments[i].CallbackDeliveryAttempts = 2
        /\ payments[i].CallbackDeliveryNextAt = Ptr(payments[i].UpdatedAt + RetryInterval)
        /\ posts[i].last \in { "5xx", "transport" }
        /\ payments[j].CallbackDeliveryStatus = CallbackDeliveryFailed
        /\ payments[j].CallbackDeliveryAttempts = cfg.CallbackMaxAttempts
        /\ posts[j].last \in { "5xx", "transport" }

\* C12: a POST answered with a status in [200, 300) stores delivery status
\* SUCCESS, next_at NULL and last_err NULL, leaves callback_delivery_attempts
\* and the payment status as they were, and writes one callback_dispatched
\* event.
C12_AckedPostIsSuccess ==
    [][ Posted({ "2xx" }) =>
          LET id == Head(dsp.items).ID
              old == payments[id]
              new == payments'[id]
          IN  /\ new.CallbackDeliveryStatus = CallbackDeliverySuccess
              /\ new.CallbackDeliveryNextAt = Nil
              /\ new.CallbackDeliveryLastErr = Nil
              /\ new.CallbackDeliveryAttempts = old.CallbackDeliveryAttempts
              /\ new.Status = old.Status
              /\ events' = Insert(events, PaymentEvent(id, "callback_dispatched",
                                                       Nil, old.Status))
              /\ BatchReturns(dsp, NoErr) ]_vars

\* A delivery that had failed before was acknowledged: SUCCESS, the failed
\* attempts still counted, the error of the failure cleared.
C12_Witness ==
    \E i \in PaymentIDs :
        /\ payments[i].CallbackDeliveryStatus = CallbackDeliverySuccess
        /\ payments[i].CallbackDeliveryAttempts > 0
        /\ payments[i].CallbackDeliveryLastErr = Nil
        /\ posts[i].last = "2xx"
        /\ posts[i].sinceArm = payments[i].CallbackDeliveryAttempts + 1


\* The events of the dispatcher for payment `id`.
DispatchEvents(id) ==
    { e \in BagToSet(events) :
        /\ e.PaymentID = id
        /\ e.EventType \in { "callback_dispatched", "callback_dispatch_failed" } }

\* C22: dispatching a payment whose status_callback_url is empty makes no
\* POST, stores delivery status FAILED, next_at NULL and last_err
\* "status_callback_url is empty", leaves callback_delivery_attempts as it
\* was, and writes no callback_dispatched or callback_dispatch_failed event.
C22_EmptyUrlFailsWithoutPost ==
    [][ ( /\ RunDispatchCallbacksBatchItem
          /\ TrimSpace(Head(dsp.items).StatusCallbackURL) = "" ) =>
          LET id == Head(dsp.items).ID
              old == payments[id]
              new == payments'[id]
          IN  /\ posts' = posts
              /\ new.CallbackDeliveryStatus = CallbackDeliveryFailed
              /\ new.CallbackDeliveryNextAt = Nil
              /\ new.CallbackDeliveryLastErr = Ptr("status_callback_url is empty")
              /\ new.CallbackDeliveryAttempts = old.CallbackDeliveryAttempts
              /\ events' = events ]_vars

\* A payment without a status_callback_url was dispatched: FAILED, no attempt
\* counted, no POST received and no dispatch event, with a budget of three
\* attempts configured.
C22_Witness ==
    \E i \in PaymentIDs :
        /\ cfg.CallbackMaxAttempts > 1
        /\ payments[i].StatusCallbackURL = ""
        /\ payments[i].CallbackDeliveryStatus = CallbackDeliveryFailed
        /\ payments[i].CallbackDeliveryNextAt = Nil
        /\ payments[i].CallbackDeliveryLastErr = Ptr("status_callback_url is empty")
        /\ payments[i].CallbackDeliveryAttempts = 0
        /\ posts[i] = NoPosts
        /\ DispatchEvents(i) = {}

\* ------------------------------------------------------ a dispatcher crash
\* The dispatch worker as in SpecDispatch, stopping once: before it does
\* anything for a payment, or after the POST and before it stores the outcome.
InitCrash == StartDispatch([ Quota EXCEPT !.metered = FALSE, !.crash = 1 ])

SpecCrash ==
    /\ InitCrash
    /\ [][NextDispatch]_vars
    /\ WF_vars(RunDispatchCallbacksBatchList)
    /\ WF_vars(RunDispatchCallbacksBatchItem)
    /\ WF_vars(TickDue)

\* The last POST for payment i was sent by a worker that stopped before it
\* stored the outcome.
OutcomeLost(i) == posts[i].last = "crash"

\* The worker stops in this step: nothing is stored, and the payment it was
\* working on stays PENDING and due.
StopKeepsArmed ==
    quota'.crash < quota.crash =>
      LET id == Head(dsp.items).ID
      IN  /\ payments' = payments
          /\ payments[id].CallbackDeliveryStatus = CallbackDeliveryPending
          /\ payments[id].CallbackDeliveryNextAt # Nil
          /\ Deref(payments[id].CallbackDeliveryNextAt) <= now

Listed(i) == \E n \in DOMAIN dsp'.items : dsp'.items[n].ID = i

\* C30 as stated: a worker that stops after the POST and before the outcome
\* is stored leaves the payment PENDING with a due next_at, and the next
\* RunDispatchCallbacksBatch attempts that delivery again.
C30_NextBatchRetries ==
    [][ /\ StopKeepsArmed
        /\ RunDispatchCallbacksBatchList =>
             \A i \in PaymentIDs : OutcomeLost(i) => Listed(i) ]_vars

\* C30, amended: a worker that stops at any point before the outcome is
\* stored leaves the payment as it was, PENDING with its due next_at; the
\* next RunDispatchCallbacksBatch lists it unless batch_size payments due no
\* later fill the batch; with the dispatcher running again and again the
\* delivery is POSTed again, and every armed payment still ends SUCCESS or
\* FAILED.
C30_LostOutcomeIsRetried ==
    /\ [][ /\ StopKeepsArmed
           /\ RunDispatchCallbacksBatchList =>
                \A i \in PaymentIDs :
                  OutcomeLost(i) =>
                    \/ Listed(i)
                    \/ /\ Len(dsp'.items) = batchSize
                       /\ \A n \in DOMAIN dsp'.items :
                            Deref(dsp'.items[n].CallbackDeliveryNextAt)
                              <= Deref(payments[i].CallbackDeliveryNextAt) ]_vars
    /\ (\E i \in PaymentIDs : OutcomeLost(i)) ~> (\A i \in PaymentIDs : ~OutcomeLost(i))
    /\ <>[](\A i \in PaymentIDs : Delivered(i))

\* The outcome of the first POST for a payment was lost with the worker; a
\* later batch POSTed again and stored SUCCESS, with no failed attempt counted.
C30_Witness ==
    \E i \in PaymentIDs :
        /\ quota.crash = 0
        /\ posts[i].sinceArm = 2
        /\ posts[i].last = "2xx"
        /\ payments[i].CallbackDeliveryAttempts = 0
        /\ payments[i].CallbackDeliveryStatus = CallbackDeliverySuccess
\* ------------------------------------------------ cancellation and webhooks
\* Requests only: creation, cancellation and webhooks of every payload and
\* provider tag, on concurrent handlers; no worker runs and the clock stands
\* still.
InputsStatus == [ Inputs EXCEPT !.payloads = Payloads, !.tags = ProviderTags ]

InitStatus == Start(Quota, Configs, InputsStatus)

NextStatus ==
    \/ CreatePayment
    \/ CancelPayment
    \/ HandleProviderCallback

SpecStatus == InitStatus /\ [][NextStatus]_vars

\* C13: CancelPayment on a payment whose status is PAID returns InvalidStatus
\* and writes nothing: the payment row (delivery sub-state and updated_at
\* included) and the payment_events table stay as they are.
C13_PaidIsNotCanceled ==
    [][ \A t \in Threads : \A id \in PaymentIDs :
          (CancelPaymentFind(t, id) /\ payments[id].Status = PAYMENT_STATUS_PAID) =>
            /\ resp' = Response("cancel", ErrInvalidStatus, Nil, 0)
            /\ UNCHANGED << payments, events, callbacks, posts, req >> ]_vars

\* A cancel of a paid payment, armed by the webhook that paid it, was refused.
C13_Witness ==
    /\ resp = Response("cancel", ErrInvalidStatus, Nil, 0)
    /\ \E i \in PaymentIDs :
         /\ payments[i].Status = PAYMENT_STATUS_PAID
         /\ payments[i].CallbackDeliveryStatus = CallbackDeliveryPending
    /\ \A t \in Threads : req[t].op = "idle"

\* C14: CancelPayment on a missing id returns PaymentNotFound; on an existing
\* payment whose status is not PAID it calls no provider and stores status
\* CANCELED with the delivery armed (PENDING, attempts 0, next_at = now) and
\* exactly one payment_canceled event whose old_status is the status the
\* payment had when the call loaded it.
C14_CancelStoresCanceled ==
    [][ \A t \in Threads :
          /\ \A id \in 1 .. Len(payments) + 1 :
               CancelPaymentFind(t, id) =>
                 /\ UNCHANGED << payments, events, sessions >>
                 /\ id \notin PaymentIDs =>
                      resp' = Response("cancel", ErrPaymentNotFound, Nil, 0)
                 /\ (id \in PaymentIDs /\ payments[id].Status # PAYMENT_STATUS_PAID) =>
                      /\ req'[t].op = "cancel"
                      /\ req'[t].oldStatus = payments[id].Status
          /\ CancelPaymentUpdate(t) =>
               LET id == Deref(req[t].payment).ID
               IN  /\ payments'[id].Status = PAYMENT_STATUS_CANCELED
                   /\ ArmedAt(payments'[id], req[t].now)
                   /\ events' = Insert(events,
                                       PaymentEvent(id, "payment_canceled",
                                                    Ptr(req[t].oldStatus),
                                                    PAYMENT_STATUS_CANCELED))
                   /\ resp'.err = NoErr
                   /\ UNCHANGED sessions ]_vars

\* The webhook names the registered provider.
Supported(in) == in.Provider \in { "stripe", "STRIPE", " stripe ", "1" }

\* The webhook passes the provider's verification: signed, and parseable.
Verified(in) == Supported(in) /\ in.Signature = "valid" /\ in.Payload.json

\* The ids of the payments the webhook's callback hash routes to.
Routed(in) == { i \in PaymentIDs : payments[i].ProviderCallbackHash = in.CallbackHash }

\* The step adds one REJECTED row with an error text and no payment id to
\* payment_callbacks.
RecordsRejection ==
    \E row \in BagToSet(callbacks' (-) callbacks) :
        /\ callbacks' = Insert(callbacks, row)
        /\ row.Status = paymentCallbackStatusRejected
        /\ row.PaymentID = Nil
        /\ row.Error # Nil
        /\ Deref(row.Error) # ""

\* C15: a webhook that fails verification returns CallbackRejected, and a
\* verified one whose callback hash matches no payment returns
\* PaymentNotFound; either way no payment row changes, no PaymentEvent is
\* written, and one REJECTED PaymentCallback with a non-empty error and a
\* null payment_id is recorded.
C15_RejectedWebhookIsRecorded ==
    [][ \A t \in Threads : \A in \in CallbackRequests :
          HandleProviderCallbackFind(t, in) =>
            /\ (Supported(in) /\ ~Verified(in)) =>
                 /\ resp' = Response("callback", ErrCallbackRejected, Nil, 1)
                 /\ RecordsRejection
                 /\ UNCHANGED << payments, events, req >>
            /\ (Verified(in) /\ Routed(in) = {}) =>
                 /\ resp' = Response("callback", ErrPaymentNotFound, Nil, 1)
                 /\ RecordsRejection
                 /\ UNCHANGED << payments, events, req >> ]_vars

\* Both rejections are on record, one of them for the hash of a stored
\* payment, which is as CreatePayment left it.
C15_Witness ==
    /\ \E i \in PaymentIDs :
         /\ payments[i].Status = PAYMENT_STATUS_PENDING
         /\ payments[i].UpdatedAt = payments[i].CreatedAt
         /\ BagIn(PaymentCallback(Nil, payments[i].ProviderCallbackHash,
                                  paymentCallbackStatusRejected,
                                  Ptr("provider callback validation failed")),
                  callbacks)
    /\ \E row \in BagToSet(callbacks) :
         /\ row.Error = Ptr("payment not found for callback hash")
         /\ row.PaymentID = Nil
    /\ BagCardinality(events) = 1

SecondApplication(t) ==
    LET loaded == Deref(req[t].payment)
    IN  /\ HandleProviderCallbackUpdate(t)
        /\ terminalStatus(req[t].oldStatus)
        /\ StripeEventStatus(req[t].eventType) = req[t].oldStatus
        /\ \E e \in BagToSet(events) :
             e.PaymentID = loaded.ID /\ e.EventType = req[t].eventType
        /\ loaded = [ payments[loaded.ID] EXCEPT !.UpdatedAt = req[t].now ]

\* C17: HandleProviderCallback(e), for a verified event e that maps to a
\* terminal status, applied a second time to the same payment, leaves the
\* payment as the first application left it, its status and its delivery
\* sub-state as far as delivery has progressed since, and still writes a
\* PROCESSED PaymentCallback row of its own.
C17_ReplayedWebhookChangesNothing ==
    [][ \A t \in Threads :
          SecondApplication(t) =>
            LET id == Deref(req[t].payment).ID
            IN  /\ payments'[id] = [ payments[id] EXCEPT !.UpdatedAt = req[t].now ]
                /\ callbacks' = Insert(callbacks,
                                       PaymentCallback(Ptr(id),
                                                       payments[id].ProviderCallbackHash,
                                                       paymentCallbackStatusProcessed, Nil))
                /\ resp'.err = NoErr ]_vars

\* Thread t is about to write for a webhook that was handled concurrently
\* with another webhook for the same payment: the other is between its load
\* and its write, or was the last call to finish and wrote after t loaded.
Twin(t) ==
    LET id == Deref(req[t].payment).ID
    IN  \/ \E u \in Threads \ { t } :
             req[u].op = "callback" /\ Deref(req[u].payment).ID = id
        \/ /\ resp.op = "callback"
           /\ resp.err = NoErr
           /\ resp.payment # Nil
           /\ Deref(resp.payment).ID = id
           /\ payments[id].Status # req[t].oldStatus

\* C18: of two concurrent webhooks with verified terminal-status events for
\* one payment, in every interleaving of their loads and writes, each
\* persists its PaymentCallback row, and each write, the last one included,
\* leaves the payment in the terminal status of its event with the delivery
\* armed.
C18_ConcurrentWebhooksBothRecorded ==
    [][ \A t \in Threads :
          ( /\ HandleProviderCallbackUpdate(t)
            /\ terminalStatus(StripeEventStatus(req[t].eventType))
            /\ ~terminalStatus(req[t].oldStatus)
            /\ Twin(t) ) =>
            LET id == Deref(req[t].payment).ID
            IN  /\ callbacks' = Insert(callbacks,
                                       PaymentCallback(Ptr(id),
                                                       payments[id].ProviderCallbackHash,
                                                       paymentCallbackStatusProcessed, Nil))
                /\ payments'[id].Status = StripeEventStatus(req[t].eventType)
                /\ ArmedAt(payments'[id], req[t].now) ]_vars

\* ------------------------------------------------------ the batch sweepers
\* Two payments created at different times, a webhook that pays, one that
\* carries no status, and the reconcile and expire workers, with time
\* advancing.
InputsSweep ==
    [ Inputs EXCEPT
        !.requests = { r \in CreateRequests :
                         /\ r.RequestId \in { "r1", "r2" }
                         /\ r.Provider = 0
                         /\ r.StatusCallbackUrl = "https://c/cb" },
        !.payloads = { p \in Payloads :
                         p.json /\ p.type \in { "checkout.session.completed",
                                                "charge.refunded" } },
        !.tags = { "stripe" } ]

InitSweep == Start(Quota, Configs, InputsSweep)

NextSweep ==
    \/ CreatePayment
    \/ HandleProviderCallback
    \/ RunReconcileBatch
    \/ RunExpirePendingBatch
    \/ Tick

SpecSweep == InitSweep /\ [][NextSweep]_vars

\* job_batch_size, 100 when it is not configured.
BatchLimit == IF cfg.JobBatchSize > 0 THEN cfg.JobBatchSize ELSE defaultBatchSize

\* `items` are the rows of the `limit` first payments of `due` in ascending
\* order of `at`, as stored now.
OldestFirst(items, due, at, limit) ==
    /\ Len(items) = Min(limit, Cardinality(due))
    /\ \A n \in DOMAIN items :
         /\ items[n].ID \in due
         /\ items[n] = payments[items[n].ID]
         /\ \A m \in DOMAIN items : m < n =>
              /\ items[m].ID # items[n].ID
              /\ at[items[m].ID] <= at[items[n].ID]
         /\ \A i \in due \ { items[m].ID : m \in DOMAIN items } :
              at[items[n].ID] <= at[i]

\* The step changes no payment row but that of `id`.
OnlyRowChanged(id) ==
    /\ Len(payments') = Len(payments)
    /\ \A j \in PaymentIDs \ { id } : payments'[j] = payments[j]

DeliveryOf(row) ==
    << row.CallbackDeliveryStatus, row.CallbackDeliveryAttempts,
       row.CallbackDeliveryNextAt, row.CallbackDeliveryLastErr >>

InputsProvider ==
    [ InputsSweep EXCEPT !.initial = { PAYMENT_STATUS_PENDING, PAYMENT_STATUS_PAID } ]

InitProvider == Start(Quota, Configs, InputsProvider)

NextProvider ==
    \/ CreatePayment
    \/ Tick

SpecProvider == InitProvider /\ [][NextProvider]_vars

\* The checkout the provider created for callback hash `hash`.
SessionOf(hash) == CHOOSE s \in sessions : s.CallbackHash = hash

\* C24: a CreatePayment call that inserts a payment stores the provider's
\* initial_status, refundable_cents = amount_cents, refunded_cents = 0 and the
\* callback hash drawn for this call, which no stored payment has; the
\* delivery is NONE with 0 attempts and next_at NULL for a non-terminal
\* initial status, and PENDING with 0 attempts and next_at = the call's now
\* for a terminal one; one payment_created event is written for the payment.
C24_InsertStoresTheNewPayment ==
    [][ \A t \in Threads :
          (CreatePaymentInsert(t) /\ resp'.err = NoErr) =>
            LET id == Len(payments) + 1
                new == payments'[id]
                given == SessionOf(new.ProviderCallbackHash)
            IN  /\ payments' = Append(payments, new)
                /\ new.ID = id
                /\ \E s \in sessions : s.CallbackHash = new.ProviderCallbackHash
                /\ given.RequestID = new.RequestID
                /\ given.CallerService = new.CallerService
                /\ \A i \in PaymentIDs :
                     payments[i].ProviderCallbackHash # new.ProviderCallbackHash
                /\ new.Status = given.InitialStatus
                /\ new.AmountCents \in { in.AmountCents : in \in inputs.requests }
                /\ new.RefundableCents = new.AmountCents
                /\ new.RefundedCents = 0
                /\ new.CallbackDeliveryAttempts = 0
                /\ new.CallbackDeliveryLastErr = Nil
                /\ new.CreatedAt = req[t].now
                /\ IF terminalStatus(new.Status)
                   THEN /\ new.CallbackDeliveryStatus = CallbackDeliveryPending
                        /\ new.CallbackDeliveryNextAt = Ptr(req[t].now)
                   ELSE /\ new.CallbackDeliveryStatus = CallbackDeliveryNone
                        /\ new.CallbackDeliveryNextAt = Nil
                /\ events' = Insert(events, PaymentEvent(id, "payment_created", Nil,
                                                         new.Status))
                /\ resp'.payment = Ptr(new) ]_vars

\* Two payments were created after the clock had advanced: one with initial
\* status PENDING and no delivery, one with initial status PAID and the
\* delivery armed at its creation time; each has its payment_created event.
C24_Witness ==
    \E i, j \in PaymentIDs :
        /\ payments[i].Status = PAYMENT_STATUS_PENDING
        /\ payments[i].CallbackDeliveryStatus = CallbackDeliveryNone
        /\ payments[i].CallbackDeliveryNextAt = Nil
        /\ payments[j].Status = PAYMENT_STATUS_PAID
        /\ payments[j].CreatedAt > 0
        /\ payments[j].CallbackDeliveryStatus = CallbackDeliveryPending
        /\ payments[j].CallbackDeliveryNextAt = Ptr(payments[j].CreatedAt)
        /\ payments[i].ProviderCallbackHash # payments[j].ProviderCallbackHash
        /\ \A k \in { i, j } :
             CopiesIn(PaymentEvent(k, "payment_created", Nil, payments[k].Status),
                      events) = 1

\* ------------------------------------------------------- callback hashes
\* Creation under two request keys with webhooks and cancellation, where a
\* drawn callback hash may repeat an earlier one.
InputsCollide == [ InputsSweep EXCEPT !.collide = TRUE ]

InitCollide == Start(Quota, Configs, InputsCollide)

NextCollide ==
    \/ CreatePayment
    \/ CancelPayment
    \/ HandleProviderCallback

SpecCollide == InitCollide /\ [][NextCollide]_vars

\* C25: any two distinct payments differ in (provider, provider_callback_hash),
\* so the lookup by which HandleProviderCallback routes a webhook finds at
\* most one payment for a (provider, callback_hash).
C25_CallbackHashIsUnique ==
    /\ \A p, q \in PaymentIDs :
         p # q => << payments[p].Provider, payments[p].ProviderCallbackHash >>
                  # << payments[q].Provider, payments[q].ProviderCallbackHash >>
    /\ \A in \in CallbackRequests :
         Cardinality(FindByCallbackHash(parseProviderCode(in.Provider),
                                        in.CallbackHash)) = 1

\* Two payments are stored, and the provider holds a checkout that was made
\* for another request under the callback hash of one of them: the insert of
\* that request was refused.
C25_Witness ==
    /\ Len(payments) = 2
    /\ \E i \in PaymentIDs : \E s \in sessions :
         /\ s.CallbackHash = payments[i].ProviderCallbackHash
         /\ s.RequestID # payments[i].RequestID
         /\ \A j \in PaymentIDs : payments[j].ProviderCallbackHash = s.CallbackHash => j = i

\* ------------------------------------------------------- what never changes
\* The columns of a payment that are fixed at creation.
Fixed(row) ==
    << row.ID, row.RequestID, row.CallerService, row.Provider,
       row.ProviderCallbackHash, row.AmountCents, row.Currency, row.CreatedAt >>

\* C26: no operation changes a stored payment's provider_callback_hash, id,
\* request_id, caller_service, provider, amount_cents, currency or
\* created_at, and no payment is ever removed.
C26_CreationValuesAreKept ==
    [][ /\ Len(payments') >= Len(payments)
        /\ \A i \in PaymentIDs : Fixed(payments'[i]) = Fixed(payments[i]) ]_vars

\* A payment created at time 0 was canceled, and later its callback was
\* delivered: it still is the payment the provider made its checkout for.
C26_Witness ==
    \E i \in PaymentIDs : \E s \in sessions :
        /\ payments[i].Status = PAYMENT_STATUS_CANCELED
        /\ payments[i].CallbackDeliveryStatus = CallbackDeliverySuccess
        /\ payments[i].UpdatedAt > payments[i].CreatedAt
        /\ payments[i].ID = i
        /\ payments[i].Currency = "USD"
        /\ payments[i].ProviderCallbackHash = s.CallbackHash
        /\ payments[i].RequestID = s.RequestID
        /\ payments[i].CallerService = s.CallerService

\* ------------------------------------------------------------ refund amounts
\* Every operation, with payments created through the server: requests for
\* one key with a negative, a zero and a positive amount.
InputsServer ==
    [ Inputs EXCEPT !.requests =
        { [ r EXCEPT !.AmountCents = a ] :
          r \in { q \in CreateRequests :
                    /\ q.RequestId = "r1" /\ q.CallerService = "subs"
                    /\ q.Provider = 0 /\ q.StatusCallbackUrl = "https://c/cb" },
          a \in { -1, 0, 1000 } } ]

InitServer == Start(Quota, Configs, InputsServer)

ServerCreatePayment == \E t \in Threads :
    \/ \E in \in inputs.requests : ServerCreatePaymentRejected(t, in)
    \/ \E in \in inputs.requests : ServerCreatePaymentAccepted(t, in)
    \/ CreatePaymentInsert(t)

NextServer ==
    \/ ServerCreatePayment
    \/ CancelPayment
    \/ HandleProviderCallback
    \/ RunReconcileBatch
    \/ RunExpirePendingBatch
    \/ RunDispatchCallbacksBatch
    \/ Tick

SpecServer == InitServer /\ [][NextServer]_vars

\* C27: every stored payment has refundable_cents >= 0, refunded_cents >= 0
\* and refundable_cents + refunded_cents <= amount_cents.
C27_RefundAmountsWithinAmount ==
    \A i \in PaymentIDs :
        /\ payments[i].RefundableCents >= 0
        /\ payments[i].RefundedCents >= 0
        /\ payments[i].RefundableCents + payments[i].RefundedCents
             <= payments[i].AmountCents

\* A payment of 1000 cents was stored, a webhook for a refunded charge was
\* applied to it, and a request with a non-positive amount was refused.
C27_Witness ==
    /\ resp = Response("create", ErrInvalidArgument, Nil, 0)
    /\ \E i \in PaymentIDs :
         /\ payments[i].AmountCents = 1000
         /\ payments[i].RefundableCents = 1000
         /\ payments[i].RefundedCents = 0
         /\ \E e \in BagToSet(events) :
              e.PaymentID = i /\ e.EventType = "charge.refunded"

\* ------------------------------------------------- what the provider reports
\* Creation, webhooks and the reconciler, the provider reporting every
\* combination of session status and payment_status.
InputsStripe == [ Inputs EXCEPT !.stripe = StripeSessions ]

InitStripe == Start(Quota, Configs, InputsStripe)

NextStripe ==
    \/ CreatePayment
    \/ HandleProviderCallback
    \/ RunReconcileBatch
    \/ Tick

SpecStripe == InitStripe /\ [][NextStripe]_vars

\* The reconcile step asked the provider, which reported a session.
Reported ==
    /\ RunReconcileBatchItem
    /\ rec'.answer # Nil
    /\ Deref(rec'.answer).err = NoErr
    /\ Deref(rec'.answer).session # Nil

C29_StaleWriteKeepsCommittedStatus ==
    [][ /\ RunExpirePendingBatchItem =>
             LET id == Head(exp.items).ID
             IN  payments[id].Status = PAYMENT_STATUS_CANCELED =>
                   /\ payments'[id].Status = PAYMENT_STATUS_CANCELED
                   /\ DeliveryOf(payments'[id]) = DeliveryOf(payments[id])
        /\ RunReconcileBatchItem =>
             LET id == Head(rec.items).ID
             IN  payments[id].Status = PAYMENT_STATUS_CANCELED =>
                   /\ payments'[id].Status = PAYMENT_STATUS_CANCELED
                   /\ DeliveryOf(payments'[id]) = DeliveryOf(payments[id])
        /\ \A t \in Threads :
             ( /\ CancelPaymentUpdate(t) \/ HandleProviderCallbackUpdate(t)
               /\ req[t].oldStatus # PAYMENT_STATUS_EXPIRED ) =>
               LET id == Deref(req[t].payment).ID
               IN  payments[id].Status = PAYMENT_STATUS_EXPIRED =>
                     /\ payments'[id].Status = PAYMENT_STATUS_EXPIRED
                     /\ DeliveryOf(payments'[id]) = DeliveryOf(payments[id]) ]_vars

\* ------------------------------------------------------------------ batches
\* Two payments, the three workers and the clock; job_batch_size is not
\* configured, so a batch takes every row its query selects, and one storage
\* call may fail.
QuotaBatch == [ Quota EXCEPT !.fault = 1 ]

ConfigsBatch == { [ c EXCEPT !.JobBatchSize = 0 ] : c \in Configs }

InitBatch == Start(QuotaBatch, ConfigsBatch, InputsSweep)

NextBatch ==
    \/ CreatePayment
    \/ RunReconcileBatch
    \/ RunExpirePendingBatch
    \/ RunDispatchCallbacksBatch
    \/ Tick

SpecBatch == InitBatch /\ [][NextBatch]_vars

\* A step of a batch on the item at the head of `worker.items`: the batch goes
\* on to the next listed item whatever became of this one, and returns after
\* the last; the error kept (and returned at the end) is the one kept so far
\* or else, this item having failed, its error, and none if it succeeded.
BatchGoesOn(worker, after, op, failed, succeeded) ==
    LET last == Len(worker.items) = 1
        first == IF last THEN resp'.err ELSE after.firstErr
    IN  /\ IF last
           THEN after.pc = "idle" /\ resp'.op = op
           ELSE /\ after.pc = "run"
                /\ after.items = Tail(worker.items)
                /\ resp' = NoResponse
        /\ worker.firstErr # NoErr => first = worker.firstErr
        /\ worker.firstErr = NoErr => /\ failed => first # NoErr
                                      /\ succeeded => first = NoErr

\* C21: each batch routine attempts every item it listed, also after an item
\* failed, and returns the error of the first item that failed, nil if none
\* did.  An item of the reconcile batch fails when the provider answers with
\* an error or the new status is not stored; of the expire batch, when
\* EXPIRED is not stored; of the dispatch batch, when the POST fails or the
\* outcome is not stored.
C21_BatchReturnsFirstError ==
    [][ /\ RunReconcileBatchItem =>
             LET id == Head(rec.items).ID
                 listed == Head(rec.items).Status
                 answer == rec'.answer
                 asked == answer # Nil
                 moves == /\ asked
                          /\ Deref(answer).err = NoErr
                          /\ Deref(answer).status \notin { 0, listed }
             IN  BatchGoesOn(rec, rec', "reconcile",
                             \/ asked /\ Deref(answer).err # NoErr
                             \/ moves /\ payments'[id].Status # Deref(answer).status,
                             \/ ~asked
                             \/ asked /\ Deref(answer).err = NoErr /\ ~moves
                             \/ moves /\ payments' # payments)
        /\ RunExpirePendingBatchItem =>
             LET id == Head(exp.items).ID
             IN  BatchGoesOn(exp, exp', "expire",
                             payments'[id].Status # PAYMENT_STATUS_EXPIRED,
                             payments' # payments)
        /\ RunDispatchCallbacksBatchItem =>
             LET id == Head(dsp.items).ID
             IN  BatchGoesOn(dsp, dsp', "dispatch",
                             \/ Posted({ "5xx", "transport" })
                             \/ payments' = payments,
                             /\ ~Posted({ "5xx", "transport" })
                             /\ payments' # payments) ]_vars

\* A dispatch batch of two has returned: the outcome of the POST for its
\* first payment could not be stored, the POST for its second was made and
\* failed, and the batch returned the storage error of the first.
C21_Witness ==
    /\ resp.op = "dispatch"
    /\ resp.err = ErrStorage
    /\ \E i, j \in PaymentIDs :
         /\ i # j
         /\ posts[i].sinceArm = 1
         /\ payments[i].CallbackDeliveryStatus = CallbackDeliveryPending
         /\ payments[i].CallbackDeliveryAttempts = 0
         /\ posts[j].last \in { "5xx", "transport" }
         /\ payments[j].CallbackDeliveryAttempts = 1

\* ------------------------------------------------------- who gets a POST
\* The dispatch step POSTs for a payment whose stored row is PENDING and due.
PostsOnlyDue ==
    Posted({ "2xx", "5xx", "transport" }) =>
      LET stored == payments[Head(dsp.items).ID]
      IN  /\ stored.CallbackDeliveryStatus = CallbackDeliveryPending
          /\ stored.CallbackDeliveryNextAt # Nil
          /\ Deref(stored.CallbackDeliveryNextAt) <= now

\* The dispatch step POSTs for a payment its batch listed as PENDING and due.
PostsOnlyListedDue ==
    Posted({ "2xx", "5xx", "transport" }) =>
      LET listed == Head(dsp.items)
      IN  /\ listed.CallbackDeliveryStatus = CallbackDeliveryPending
          /\ listed.CallbackDeliveryNextAt # Nil
          /\ Deref(listed.CallbackDeliveryNextAt) <= dsp.now
          /\ dsp.now <= now

\* The dispatch step's POST fails and the delivery stays PENDING.
FailedAndPending ==
    /\ Posted({ "5xx", "transport" })
    /\ payments'[Head(dsp.items).ID].CallbackDeliveryStatus = CallbackDeliveryPending

WritesOverLoaded(t) ==
    LET entity == Deref(req[t].payment)
    IN  /\ HandleProviderCallbackUpdate(t)
        /\ payments[entity.ID].Status = req[t].oldStatus
        /\ entity.Status = req[t].oldStatus =>
             DeliveryOf(payments[entity.ID]) = DeliveryOf(entity)

\* C32: HandleProviderCallback for an existing payment writes one PaymentEvent
\* whose old_status is present if and only if the stored status changed; when
\* the event carries status 0 or the payment's current status, the status and
\* the delivery sub-state stay as they are, old_status is absent, and a
\* PROCESSED PaymentCallback row is still written.
C32_OldStatusIffStatusChanged ==
    [][ \A t \in Threads :
          WritesOverLoaded(t) =>
            LET id == Deref(req[t].payment).ID
                written == BagToSet(events' (-) events)
            IN  /\ \E e \in written :
                     /\ events' = Insert(events, e)
                     /\ e.PaymentID = id
                     /\ e.OldStatus # Nil <=> payments'[id].Status # payments[id].Status
                     /\ e.OldStatus # Nil => e.OldStatus = Ptr(payments[id].Status)
                     /\ e.NewStatus = payments'[id].Status
                /\ Deref(req[t].payment).Status = req[t].oldStatus =>
                     /\ payments'[id].Status = payments[id].Status
                     /\ DeliveryOf(payments'[id]) = DeliveryOf(payments[id])
                     /\ \A e \in written : e.OldStatus = Nil
                     /\ callbacks' = Insert(callbacks,
                                            PaymentCallback(Ptr(id),
                                                            payments[id].ProviderCallbackHash,
                                                            paymentCallbackStatusProcessed,
                                                            Nil)) ]_vars

\* ------------------------------------------------- the delivery sub-state
\* The whole service, with callback_max_attempts left at 0 or configured to a
\* budget that the invocations can use up.
ConfigsDelivery ==
    { [ c EXCEPT !.CallbackMaxAttempts = m ] :
      c \in Configs, m \in { 0, CallbackMaxAttempts - 1 } }

InitDelivery == Start(Quota, ConfigsDelivery, Inputs)

SpecDelivery == InitDelivery /\ [][Next]_vars

\* C33: the delivery sub-state of every payment is well formed: PENDING has
\* a next_at; SUCCESS and FAILED have none; SUCCESS has no last_err; NONE has
\* no attempts, no next_at and no last_err.
C33_DeliverySubStateWellFormed ==
    \A i \in PaymentIDs :
        LET row == payments[i]
        IN  /\ row.CallbackDeliveryStatus \in { CallbackDeliveryNone, CallbackDeliveryPending,
                                                CallbackDeliverySuccess, CallbackDeliveryFailed }
            /\ row.CallbackDeliveryStatus = CallbackDeliveryPending =>
                 row.CallbackDeliveryNextAt # Nil
            /\ row.CallbackDeliveryStatus \in { CallbackDeliverySuccess,
                                                CallbackDeliveryFailed } =>
                 row.CallbackDeliveryNextAt = Nil
            /\ row.CallbackDeliveryStatus = CallbackDeliverySuccess =>
                 row.CallbackDeliveryLastErr = Nil
            /\ row.CallbackDeliveryStatus = CallbackDeliveryNone =>
                 /\ row.CallbackDeliveryAttempts = 0
                 /\ row.CallbackDeliveryNextAt = Nil
                 /\ row.CallbackDeliveryLastErr = Nil

\* A delivery failed once and was then acknowledged: SUCCESS without next_at
\* and with the error of the failed attempt cleared, the attempt still counted.
C33_Witness ==
    \E i \in PaymentIDs :
        /\ payments[i].CallbackDeliveryStatus = CallbackDeliverySuccess
        /\ payments[i].CallbackDeliveryAttempts = 1
        /\ payments[i].CallbackDeliveryNextAt = Nil
        /\ payments[i].CallbackDeliveryLastErr = Nil
        /\ BagIn(PaymentEvent(i, "callback_dispatch_failed", Nil, payments[i].Status), events)
        /\ BagIn(PaymentEvent(i, "callback_dispatched", Nil, payments[i].Status), events)

\* C34: with callback_max_attempts M, a value <= 0 counting as 1, every
\* payment has 0 <= callback_delivery_attempts <= M, and a payment whose
\* delivery is PENDING has callback_delivery_attempts < M.
C34_AttemptsWithinBudget ==
    \A i \in PaymentIDs :
        /\ 0 <= payments[i].CallbackDeliveryAttempts
        /\ payments[i].CallbackDeliveryAttempts <= MaxPosts
        /\ payments[i].CallbackDeliveryStatus = CallbackDeliveryPending =>
             payments[i].CallbackDeliveryAttempts < MaxPosts

\* With a budget of two or more attempts, a delivery used the budget up and
\* is FAILED with exactly that many attempts counted.
C34_Witness ==
    \E i \in PaymentIDs :
        /\ cfg.CallbackMaxAttempts > 1
        /\ payments[i].CallbackDeliveryStatus = CallbackDeliveryFailed
        /\ payments[i].CallbackDeliveryAttempts = cfg.CallbackMaxAttempts
        /\ posts[i].sinceArm = cfg.CallbackMaxAttempts
        /\ posts[i].last \in { "5xx", "transport" }

\* C35: a payment whose status is non-terminal (CREATED, PENDING or
\* PROCESSING) has delivery status NONE: a delivery is armed, succeeded or
\* failed only for a payment whose stored status is terminal.
C35_DeliveryOnlyForTerminal ==
    \A i \in PaymentIDs :
        ~terminalStatus(payments[i].Status) =>
            payments[i].CallbackDeliveryStatus = CallbackDeliveryNone

\* A payment was canceled and armed, and a webhook without a status that had
\* loaded it before wrote its row back: the status is PENDING again and the
\* delivery is NONE again.
C35_Witness ==
    \E i \in PaymentIDs :
        /\ payments[i].Status = PAYMENT_STATUS_PENDING
        /\ payments[i].CallbackDeliveryStatus = CallbackDeliveryNone
        /\ BagIn(PaymentEvent(i, "payment_canceled", Ptr(PAYMENT_STATUS_PENDING),
                              PAYMENT_STATUS_CANCELED), events)
        /\ BagIn(PaymentEvent(i, "charge.refunded", Nil, PAYMENT_STATUS_PENDING), events)

\* --------------------------------------------- what the caller was told last
\* One payment, the webhooks that cancel it, pay it and carry no status, and
\* the dispatch worker, with two invocations more than elsewhere.
InitAck == Start([ Quota EXCEPT !.ops = MaxOps + 2 ], Configs, Inputs)

NextAck ==
    \/ CreatePayment
    \/ HandleProviderCallback
    \/ RunDispatchCallbacksBatch

SpecAck == InitAck /\ [][NextAck]_vars

\* C36: whenever a payment's delivery status is SUCCESS, the last POST that
\* was answered 2xx for it carried the status the payment has now, under any
\* interleaving of the dispatcher with the request handlers; and a payment
\* with a terminal status is delivered that status or still has a delivery
\* pending (or FAILED, its attempts used up).
C36_SuccessMeansToldStoredStatus ==
    \A i \in PaymentIDs :
        /\ payments[i].CallbackDeliveryStatus = CallbackDeliverySuccess =>
             posts[i].acked = payments[i].Status
        /\ terminalStatus(payments[i].Status) =>
             payments[i].CallbackDeliveryStatus # CallbackDeliveryNone

\* ------------------------------------------------ what the dispatcher writes
\* C37: a write of RunDispatchCallbacksBatch changes only the delivery
\* columns and updated_at of the payment it dispatches: status,
\* provider_payment_id and provider_subscription_id are after the write what
\* was stored before it, also when another operation updated the row after
\* the batch listed it; no other row changes.
C37_DispatcherKeepsStatusAndIds ==
    [][ RunDispatchCallbacksBatchItem =>
          LET id == Head(dsp.items).ID
          IN  /\ payments'[id].Status = payments[id].Status
              /\ payments'[id].ProviderPaymentID = payments[id].ProviderPaymentID
              /\ payments'[id].ProviderSubscriptionID = payments[id].ProviderSubscriptionID
              /\ \A i \in PaymentIDs \ { id } : payments'[i] = payments[i] ]_vars

\* ------------------------------------------------ reconciliation, repeated
\* Two payments created over checkout sessions that the provider holds
\* unchanged: cs_1 unpaid, cs_2 paid, cs_3 in a state that maps to no status;
\* the reconcile worker is invoked again and again, with job_batch_size
\* configured or left at 0, time advances, and nothing else touches a
\* payment.
InputsReconcile ==
    [ InputsSweep EXCEPT
        !.sessions = { Ptr("cs_1"), Ptr("cs_2"), Ptr("cs_3") },
        !.held = [ id \in { "cs_1", "cs_2", "cs_3" } |->
                     [ status |-> "open",
                       payment_status |-> CASE id = "cs_1" -> "unpaid"
                                            [] id = "cs_2" -> "paid"
                                            [] OTHER -> "processing" ] ] ]

ConfigsReconcile ==
    { [ c EXCEPT !.JobBatchSize = b ] : c \in Configs, b \in { 0, JobBatchSize } }

\* The payment CreatePayment stored at time t for a request over `session`.
CreatedPayment(id, requestID, session, t) ==
    LET in == CHOOSE r \in InputsReconcile.requests :
                  r.RequestId = requestID /\ r.CallerService = "subs"
        out == CHOOSE o \in StripeCreateOutputs({ session }) : o.err = NoErr
    IN  [ NewPayment(in, PROVIDER_TYPE_STRIPE, out, id, t) EXCEPT !.ID = id ]

\* Two payments, the second created with or after the first.
InitReconcile ==
    /\ payments \in { << CreatedPayment(1, "r1", a, 0), CreatedPayment(2, "r2", b, t) >> :
                      a \in InputsReconcile.sessions, b \in InputsReconcile.sessions,
                      t \in 0 .. 1 }
    /\ events = SetToBag({ PaymentEvent(i, "payment_created", Nil, PAYMENT_STATUS_PENDING) :
                           i \in { 1, 2 } })
    /\ callbacks = EmptyBag
    /\ sessions = { [ RequestID |-> payments[i].RequestID,
                      CallerService |-> payments[i].CallerService,
                      CallbackHash |-> payments[i].ProviderCallbackHash,
                      InitialStatus |-> PAYMENT_STATUS_PENDING ] : i \in { 1, 2 } }
    /\ posts = << NoPosts, NoPosts >>
    /\ req = [ t \in Threads |-> IdleThread ]
    /\ rec = IdleWorker
    /\ exp = IdleWorker
    /\ dsp = IdleWorker
    /\ resp = Response("create", NoErr, Ptr(payments[2]), 0)
    /\ now = payments[2].CreatedAt
    /\ quota = [ Quota EXCEPT !.metered = FALSE ]
    /\ cfg \in ConfigsReconcile
    /\ inputs = InputsReconcile
    /\ nextHash = 3

NextReconcile ==
    \/ RunReconcileBatch
    \/ Tick

SpecReconcile ==
    /\ InitReconcile
    /\ [][NextReconcile]_vars
    /\ WF_vars(RunReconcileBatchList)
    /\ WF_vars(RunReconcileBatchItem)
    /\ WF_vars(Tick)

\* Payment i satisfies the reconcile query and the provider holds a session
\* with terminal status `status` for it.
StaleAndReported(i, status) ==
    /\ i \in PaymentIDs
    /\ payments[i].Status \in { PAYMENT_STATUS_PENDING, PAYMENT_STATUS_PROCESSING }
    /\ payments[i].ProviderPaymentID # Nil
    /\ payments[i].UpdatedAt <= now - cfg.ReconcileStaleAfter
    /\ Deref(payments[i].ProviderPaymentID) \in DOMAIN inputs.held
    /\ StripeSessionStatus(inputs.held[Deref(payments[i].ProviderPaymentID)]) = status
    /\ terminalStatus(status)

\* C38: a payment that satisfies the reconcile query and for which the
\* provider persistently reports a terminal status eventually takes that
\* status under repeated RunReconcileBatch invocations, whatever the batch
\* size and however many other stale payments the provider keeps reporting
\* as unchanged or 0.
C38_ReportedTerminalIsReached ==
    \A i \in { 1, 2 } :
      \A status \in { PAYMENT_STATUS_PAID, PAYMENT_STATUS_EXPIRED } :
        StaleAndReported(i, status) ~> (i \in PaymentIDs /\ payments[i].Status = status)

\* ------------------------------------------------ checkouts and their rows
\* The callback hash h was passed to Provider.CreatePayment by a CreatePayment
\* call that has not yet reached its insert.
CreateInFlight(h) ==
    \E t \in Threads :
        /\ req[t].op = "create"
        /\ Deref(req[t].payment).ProviderCallbackHash = h

\* C39: every checkout that Provider.CreatePayment created for a returned
\* CreatePayment call has a stored payment row carrying the callback hash
\* passed to that call, and for each (caller_service, request_id) the provider
\* created at most one checkout, racing identical requests included.
C39_EveryCheckoutHasItsRow ==
    /\ \A s \in sessions :
         ~CreateInFlight(s.CallbackHash)
           => \E i \in PaymentIDs : payments[i].ProviderCallbackHash = s.CallbackHash
    /\ \A s1, s2 \in sessions :
         (s1.CallerService = s2.CallerService /\ s1.RequestID = s2.RequestID) => s1 = s2

\* ------------------------------------------------------ a webhook that fails
\* Creation and webhooks where one storage call may fail.
InitFault == Start(QuotaBatch, Configs, Inputs)

NextFault ==
    \/ CreatePayment
    \/ HandleProviderCallback

SpecFault == InitFault /\ [][NextFault]_vars

\* Thread t's HandleProviderCallback returns in this step.
HandleProviderCallbackReturns(t) ==
    /\ \/ \E in \in CallbackRequests : HandleProviderCallbackFind(t, in)
       \/ HandleProviderCallbackUpdate(t)
    /\ resp'.op = "callback"

\* C40: when HandleProviderCallback returns an error, an error from the
\* payment update or from persisting the processed PaymentCallback row
\* included, the status and the delivery sub-state of every stored payment are
\* what they were before and no PaymentEvent has been written.
C40_FailedWebhookChangesNothing ==
    [][ \A t \in Threads :
          (HandleProviderCallbackReturns(t) /\ resp'.err # NoErr) =>
            /\ events' = events
            /\ \A i \in PaymentIDs :
                 /\ payments'[i].Status = payments[i].Status
                 /\ DeliveryOf(payments'[i]) = DeliveryOf(payments[i]) ]_vars
====
